---- MODULE Spec2Model ----
(***************************************************************************)
(* Model of the symbolic engine of calculadora.py: the triple-integral     *)
(* solver resolver_integral_triple and the three theorem evaluators        *)
(* aplicar_green, aplicar_divergencia and aplicar_stokes.                  *)
(*                                                                         *)
(* SymPy expressions are modelled as exact polynomials with rational       *)
(* coefficients over named symbols.  The constant pi and the values        *)
(* cos(angle), sin(angle) of the one angle in play are symbols of the      *)
(* polynomial, so that differentiation, substitution and definite          *)
(* integration are computed exactly, as SymPy computes them, on the        *)
(* family of inputs the model draws.                                       *)
(***************************************************************************)
EXTENDS Integers, Sequences, FiniteSets, TLC

\* ------------------------------------------------------------------ bounds
MaxLim == 3
MaxR == 2
MaxC == 1

\* ------------------------------------------------------- exact rationals
Abs(n) == IF n < 0 THEN -n ELSE n

RECURSIVE GCD(_, _)
GCD(a, b) == IF b = 0 THEN Abs(a) ELSE GCD(b, a % b)

\* A rational n/d in lowest terms with d > 0.
Rat(n, d) ==
    LET g == GCD(Abs(n), Abs(d))
        s == IF d < 0 THEN -1 ELSE 1
    IN  [n |-> (s * n) \div g, d |-> (s * d) \div g]

RInt(k) == [n |-> k, d |-> 1]
RAdd(a, b) == Rat(a.n * b.d + b.n * a.d, a.d * b.d)
RMul(a, b) == Rat(a.n * b.n, a.d * b.d)

\* ------------------------------------------------------------ polynomials
\* The symbols an expression may hold.  "pi" is the constant pi; "cos" and
\* "sin" stand for cos(angle) and sin(angle) of the angle variable in play
\* ("cosphi" and "sinphi" for phi where a second angle, theta, is in play);
\* "fl" marks a coefficient that is a binary floating-point number (a
\* sympy Float) and not an exact rational.  "rho_2" is the symbol whose name
\* is the Greek letter rho followed by a superscript two, and "sin_fi" the
\* sine of the symbol whose name is the Greek letter phi.
Names == {"x", "y", "z", "r", "theta", "phi", "rho", "t", "zs", "a", "R",
          "pi", "sqrt3", "k5", "cos", "sin", "cosphi", "sinphi", "fl",
          "rho_2", "sin_fi"}

E0 == [v \in Names |-> 0]
EVar(v) == [E0 EXCEPT ![v] = 1]
EMul(e, f) == [v \in Names |-> e[v] + f[v]]

\* A polynomial is a set of terms [c, e] with distinct exponent vectors e
\* and non-zero coefficients c: a canonical form, so that two expressions
\* are equal exactly when their difference simplifies to zero.
PZero == {}
PConst(c) == IF c.n = 0 THEN {} ELSE {[c |-> c, e |-> E0]}
PInt(k) == PConst(RInt(k))
PVar(v) == {[c |-> RInt(1), e |-> EVar(v)]}

RECURSIVE RSum(_)
RSum(S) == IF S = {} THEN RInt(0)
           ELSE LET q == CHOOSE q \in S : TRUE
                IN  RAdd(q.c, RSum(S \ {q}))

\* Collect like terms of a set of tagged terms [c, e, k] (the tag k keeps
\* equal terms of different origin apart).
Collect(T) ==
    LET Es == {q.e : q \in T}
        Coef(e) == RSum({q \in T : q.e = e})
    IN  {[c |-> Coef(e), e |-> e] : e \in {f \in Es : Coef(f).n # 0}}

PAdd(p, q) ==
    Collect({[c |-> m.c, e |-> m.e, k |-> 1] : m \in p}
            \cup {[c |-> m.c, e |-> m.e, k |-> 2] : m \in q})

PScale(p, c) == IF c.n = 0 THEN {} ELSE {[c |-> RMul(m.c, c), e |-> m.e] : m \in p}
PNeg(p) == PScale(p, RInt(-1))
PSub(p, q) == PAdd(p, PNeg(q))

PMul(p, q) ==
    Collect({[c |-> RMul(m.c, n.c), e |-> EMul(m.e, n.e), k |-> <<m, n>>]
             : <<m, n>> \in p \X q})

RECURSIVE PPow(_, _)
PPow(p, k) == IF k = 0 THEN PInt(1) ELSE PMul(p, PPow(p, k - 1))

RECURSIVE PSumSeq(_)
PSumSeq(s) == IF s = << >> THEN PZero ELSE PAdd(Head(s), PSumSeq(Tail(s)))

RECURSIVE PSumSet(_)
PSumSet(S) == IF S = {} THEN PZero
              ELSE LET q == CHOOSE q \in S : TRUE
                   IN  PAdd(q.p, PSumSet(S \ {q}))

\* The term m with symbol v removed.
Without(m, v) == {[c |-> m.c, e |-> [m.e EXCEPT ![v] = 0]]}

\* expr.subs({v: q})
PSubs(p, v, q) ==
    PSumSet({[p |-> PMul(Without(m, v), PPow(q, m.e[v])), k |-> m] : m \in p})

\* sp.diff(expr, v) for a plain symbol v
PDiff(p, v) ==
    Collect({[c |-> RMul(m.c, RInt(m.e[v])),
              e |-> [m.e EXCEPT ![v] = m.e[v] - 1], k |-> m]
             : m \in {n \in p : n.e[v] > 0}})

\* sp.integrate(expr, (v, lo, hi)) for a plain symbol v; lo, hi polynomials
PIntegrate(p, v, lo, hi) ==
    PSumSet({[p |-> PMul(PScale(Without(m, v), Rat(1, m.e[v] + 1)),
                         PSub(PPow(hi, m.e[v] + 1), PPow(lo, m.e[v] + 1))),
              k |-> m] : m \in p})

\* p / q for a non-zero number q
NumCoef(q) == (CHOOSE m \in q : TRUE).c
PDivNum(p, q) == PScale(p, Rat(NumCoef(q).d, NumCoef(q).n))

\* expr.free_symbols: every symbol but the constant pi and the float mark
FreeSymbols(p) == {v \in Names \ {"pi", "sqrt3", "k5", "fl"} : \E m \in p : m.e[v] > 0}

\* expr.is_constant()
IsConstant(p) == FreeSymbols(p) = {}

\* ------------------------------------------------- trigonometric integrals
\* cos(q*pi/2) and sin(q*pi/2) for an integer number q of quarter turns
CosQ(q) == CASE q % 4 = 0 -> 1 [] q % 4 = 1 -> 0 [] q % 4 = 2 -> -1 [] q % 4 = 3 -> 0
SinQ(q) == CASE q % 4 = 0 -> 0 [] q % 4 = 1 -> 1 [] q % 4 = 2 -> 0 [] q % 4 = 3 -> -1

\* The angle q*pi/2 as an expression
Angle(q) == IF q = 0 THEN PZero ELSE {[c |-> Rat(q, 2), e |-> EVar("pi")]}

\* Whether the expression p is a whole number of quarter turns, and which
IsQuarter(p) == \E q \in -8..8 : p = Angle(q)
Quarter(p) == CHOOSE q \in -8..8 : p = Angle(q)

\* The definite integral of cos(u)^i * sin(u)^j for u from q1*pi/2 to
\* q2*pi/2, from the antiderivatives (sin(2u) and sin(4u) vanish at whole
\* quarter turns).
TrigInt(i, j, q1, q2) ==
    LET dC == CosQ(q2) - CosQ(q1)
        dS == SinQ(q2) - SinQ(q1)
        dU == Angle(q2 - q1)
    IN  CASE i = 0 /\ j = 0 -> dU
          [] i = 1 /\ j = 0 -> PInt(dS)
          [] i = 0 /\ j = 1 -> PInt(-dC)
          [] i = 2 /\ j = 0 -> PScale(dU, Rat(1, 2))
          [] i = 0 /\ j = 2 -> PScale(dU, Rat(1, 2))
          [] i = 1 /\ j = 1 -> PConst(Rat(SinQ(q2) * SinQ(q2) - SinQ(q1) * SinQ(q1), 2))
          [] i = 3 /\ j = 0 -> PConst(Rat(2 * dS, 3))
          [] i = 0 /\ j = 3 -> PConst(Rat(-2 * dC, 3))
          [] i = 2 /\ j = 1 -> PConst(Rat(-dC, 3))
          [] i = 1 /\ j = 2 -> PConst(Rat(dS, 3))
          [] i = 4 /\ j = 0 -> PScale(dU, Rat(3, 8))
          [] i = 0 /\ j = 4 -> PScale(dU, Rat(3, 8))
          [] i = 2 /\ j = 2 -> PScale(dU, Rat(1, 8))
          [] i = 3 /\ j = 1 -> PConst(Rat(-(CosQ(q2) * CosQ(q2) - CosQ(q1) * CosQ(q1)), 4))
          [] i = 1 /\ j = 3 -> PConst(Rat(SinQ(q2) * SinQ(q2) - SinQ(q1) * SinQ(q1), 4))

\* The term m with its factors c and s (a cosine and a sine) removed
SinTrig(m, c, s) == {[c |-> m.c, e |-> [m.e EXCEPT ![c] = 0, ![s] = 0]]}

\* sp.integrate(expr, (u, lo, hi)) where the symbols c and s are cos(u) and
\* sin(u).  A term without trigonometric factors is integrated as a
\* polynomial in u; a term with them is integrated over a whole number of
\* quarter turns.
IntegrarAngulo(p, u, c, s, lo, hi) ==
    PSumSet({[p |-> IF m.e[c] = 0 /\ m.e[s] = 0
                    THEN PIntegrate({m}, u, lo, hi)
                    ELSE PMul(SinTrig(m, c, s),
                              TrigInt(m.e[c], m.e[s], Quarter(lo), Quarter(hi))),
              k |-> m] : m \in p})

\* d/du of an expression in cos(u), sin(u) (no plain power of u)
PDiffAngle(p) ==
    Collect({[c |-> RMul(m.c, RInt(-m.e["cos"])),
              e |-> [m.e EXCEPT !["cos"] = m.e["cos"] - 1, !["sin"] = m.e["sin"] + 1],
              k |-> <<m, 1>>] : m \in {n \in p : n.e["cos"] > 0}}
            \cup
            {[c |-> RMul(m.c, RInt(m.e["sin"])),
              e |-> [m.e EXCEPT !["sin"] = m.e["sin"] - 1, !["cos"] = m.e["cos"] + 1],
              k |-> <<m, 2>>] : m \in {n \in p : n.e["sin"] > 0}})

\* ------------------------------------------------------- expression trees
\* A computation is first written down as a tree of operations on
\* expressions and then carried out by Evaluar, the way sympy builds an
\* expression and then integrates and simplifies it.
Val(p) == [op |-> "val", p |-> p]
Num(k) == Val(PInt(k))
Sim(v) == Val(PVar(v))
Mas(a, b) == [op |-> "add", a |-> a, b |-> b]
Menos(a, b) == [op |-> "sub", a |-> a, b |-> b]
Por(a, b) == [op |-> "mul", a |-> a, b |-> b]
Pot(a, k) == [op |-> "pow", a |-> a, k |-> k]
\* a / b for a number b
Entre(a, b) == [op |-> "div", a |-> a, b |-> b]
\* a.subs({v: b})
Sust(a, v, b) == [op |-> "subs", a |-> a, v |-> v, b |-> b]
\* sp.diff(a, v), and sp.diff(a, t) for a in cos(t), sin(t)
Deriv(a, v) == [op |-> "diff", a |-> a, v |-> v]
DerivAng(a) == [op |-> "diffang", a |-> a]
\* sp.integrate(a, (v, lo, hi))
Integral(a, v, lo, hi) == [op |-> "int", a |-> a, v |-> v, lo |-> lo, hi |-> hi]
\* sp.integrate(a, (u, lo, hi)) where the symbols c and s are cos(u), sin(u)
IntegralAngulo(a, u, c, s, lo, hi) ==
    [op |-> "intang", a |-> a, u |-> u, c |-> c, s |-> s, lo |-> lo, hi |-> hi]
IntegralAng(a, u, lo, hi) == IntegralAngulo(a, u, "cos", "sin", lo, hi)

RECURSIVE Evaluar(_)
Evaluar(e) ==
    CASE e.op = "val" -> e.p
      [] e.op = "add" -> PAdd(Evaluar(e.a), Evaluar(e.b))
      [] e.op = "sub" -> PSub(Evaluar(e.a), Evaluar(e.b))
      [] e.op = "mul" -> PMul(Evaluar(e.a), Evaluar(e.b))
      [] e.op = "pow" -> PPow(Evaluar(e.a), e.k)
      [] e.op = "div" -> PDivNum(Evaluar(e.a), Evaluar(e.b))
      [] e.op = "subs" -> PSubs(Evaluar(e.a), e.v, Evaluar(e.b))
      [] e.op = "diff" -> PDiff(Evaluar(e.a), e.v)
      [] e.op = "diffang" -> PDiffAngle(Evaluar(e.a))
      [] e.op = "int" -> PIntegrate(Evaluar(e.a), e.v, Evaluar(e.lo), Evaluar(e.hi))
      [] e.op = "intang" ->
            IntegrarAngulo(Evaluar(e.a), e.u, e.c, e.s, Evaluar(e.lo), Evaluar(e.hi))

\* Every tree of a record of trees, carried out
EvaluarTodo(r) == [f \in DOMAIN r |-> Evaluar(r[f])]

\* a.subs({x: xs, y: ys}) and a.subs({x: xs, y: ys, z: zs}), the
\* replacements free of x, y and z
Sust2(a, xs, ys) == Sust(Sust(a, "x", xs), "y", ys)
Sust3(a, xs, ys, zs) == Sust(Sust2(a, xs, ys), "z", zs)

\* The angle of q quarter turns
Ang(q) == Val(Angle(q))

\* ------------------------------------------------------------------ text
\* A text is a sequence of one-character strings.
Digits == {"0", "1", "2", "3", "4", "5", "6", "7", "8", "9"}
DigitVal(c) == CASE c = "0" -> 0 [] c = "1" -> 1 [] c = "2" -> 2 [] c = "3" -> 3
                 [] c = "4" -> 4 [] c = "5" -> 5 [] c = "6" -> 6 [] c = "7" -> 7
                 [] c = "8" -> 8 [] c = "9" -> 9
LowerLetters == {"a", "c", "e", "h", "i", "n", "o", "p", "r", "s", "t", "x", "y", "z"}
UpperLetters == {"R", "Z"}
Letters == LowerLetters \cup UpperLetters
OpChars == {"+", "-", "*", "/", "(", ")"}

\* str.lower() on one character
LowerChar(c) == CASE c = "R" -> "r" [] c = "Z" -> "z" [] OTHER -> c

\* text.replace(" ", "").lower()
RECURSIVE Limpio(_)
Limpio(s) == IF s = << >> THEN << >>
             ELSE IF Head(s) = " " THEN Limpio(Tail(s))
             ELSE <<LowerChar(Head(s))>> \o Limpio(Tail(s))

\* text.startswith(prefix)
StartsWith(s, pre) == Len(pre) <= Len(s) /\ SubSeq(s, 1, Len(pre)) = pre

\* sub in text
Contains(s, sub) ==
    \E i \in 1..(Len(s) - Len(sub) + 1) : SubSeq(s, i, i + Len(sub) - 1) = sub

\* The characters of a text joined into one string
RECURSIVE Join(_)
Join(s) == IF s = << >> THEN "" ELSE Head(s) \o Join(Tail(s))

\* ------------------------------------------------------------- sympify
\* Tokens: [k |-> "num", n] | [k |-> "name", s] | [k |-> "op", s] |
\* [k |-> "bad"] for a character outside the grammar.
Tok(k, s, n) == [k |-> k, s |-> s, n |-> n]

\* Length of the run of characters of class C starting at s[i]
RECURSIVE Run(_, _, _)
Run(s, i, C) == IF i <= Len(s) /\ s[i] \in C THEN 1 + Run(s, i + 1, C) ELSE 0

RECURSIVE NumVal(_)
NumVal(s) == IF s = << >> THEN 0 ELSE NumVal(SubSeq(s, 1, Len(s) - 1)) * 10 + DigitVal(s[Len(s)])

RECURSIVE Lex(_, _)
Lex(s, i) ==
    IF i > Len(s) THEN << >>
    ELSE LET c == s[i] IN
         IF c = " " THEN Lex(s, i + 1)
         ELSE IF c \in Digits THEN
              LET k == Run(s, i, Digits)
              IN  <<Tok("num", "", NumVal(SubSeq(s, i, i + k - 1)))>> \o Lex(s, i + k)
         ELSE IF c \in Letters THEN
              LET k == Run(s, i, Letters \cup Digits)
              IN  <<Tok("name", Join(SubSeq(s, i, i + k - 1)), 0)>> \o Lex(s, i + k)
         ELSE IF c = "*" /\ i < Len(s) /\ s[i + 1] = "*" THEN
              <<Tok("op", "**", 0)>> \o Lex(s, i + 2)
         ELSE IF c \in OpChars THEN <<Tok("op", c, 0)>> \o Lex(s, i + 1)
         ELSE <<Tok("bad", c, 0)>> \o Lex(s, i + 1)

IsOp(tk, ops) == tk.k = "op" /\ tk.s \in ops

\* A parse result: the expression, or a failure (SympifyError)
Ok(p) == [ok |-> TRUE, p |-> p]
Fail == [ok |-> FALSE, p |-> PZero]

\* A name as a symbol.  Names are resolved by their spelling: the names of
\* the locals table and the names sympify creates on its own denote the
\* same symbol when spelled alike; "pi" is the constant.
Symbol(name) ==
    IF name \in Names \ {"sqrt3", "k5", "cos", "sin", "cosphi", "sinphi", "fl",
                         "rho_2", "sin_fi"}
    THEN Ok(PVar(name)) ELSE Fail

\* factor := NUM | NAME | sin(phi) | cos(phi), each optionally ** NUM
ParseAtom(ts) ==
    IF Len(ts) = 1 /\ ts[1].k = "num" THEN Ok(PInt(ts[1].n))
    ELSE IF Len(ts) = 1 /\ ts[1].k = "name" THEN Symbol(ts[1].s)
    ELSE IF /\ Len(ts) = 4 /\ ts[1].k = "name" /\ ts[1].s \in {"sin", "cos"}
            /\ IsOp(ts[2], {"("}) /\ ts[3].k = "name" /\ IsOp(ts[4], {")"})
            /\ ts[3].s = "phi"
         THEN Ok(PVar(ts[1].s))
    ELSE Fail

ParseFactor(ts) ==
    IF Len(ts) >= 3 /\ IsOp(ts[Len(ts) - 1], {"**"}) /\ ts[Len(ts)].k = "num"
    THEN LET b == ParseAtom(SubSeq(ts, 1, Len(ts) - 2))
         IN  IF b.ok THEN Ok(PPow(b.p, ts[Len(ts)].n)) ELSE Fail
    ELSE ParseAtom(ts)

\* Index of the last token of ts that is one of ops, or 0
RECURSIVE LastOp(_, _, _)
LastOp(ts, i, ops) == IF i = 0 THEN 0
                      ELSE IF IsOp(ts[i], ops) THEN i ELSE LastOp(ts, i - 1, ops)

\* term := factor { (* | /) factor }, division by a number only
RECURSIVE ParseTerm(_)
ParseTerm(ts) ==
    LET i == LastOp(ts, Len(ts), {"*", "/"}) IN
    IF i = 0 THEN ParseFactor(ts)
    ELSE LET l == ParseTerm(SubSeq(ts, 1, i - 1))
             f == ParseFactor(SubSeq(ts, i + 1, Len(ts)))
         IN  IF ~l.ok \/ ~f.ok THEN Fail
             ELSE IF ts[i].s = "*" THEN Ok(PMul(l.p, f.p))
             ELSE IF Len(ts) = i + 1 /\ ts[i + 1].k = "num" /\ ts[i + 1].n # 0
                  THEN Ok(PScale(l.p, Rat(1, ts[i + 1].n)))
             ELSE Fail

\* expr := [-] term { (+ | -) term }
RECURSIVE ParseExpr(_)
ParseExpr(ts) ==
    LET i == LastOp(ts, Len(ts), {"+", "-"}) IN
    IF i = 0 THEN ParseTerm(ts)
    ELSE LET f == ParseTerm(SubSeq(ts, i + 1, Len(ts)))
             l == IF i = 1 THEN Ok(PZero) ELSE ParseExpr(SubSeq(ts, 1, i - 1))
         IN  IF ~l.ok \/ ~f.ok THEN Fail
             ELSE IF ts[i].s = "+" THEN Ok(PAdd(l.p, f.p))
             ELSE Ok(PSub(l.p, f.p))

\* sp.sympify(text, locals=...): the expression, or a failure
Sympify(s) ==
    LET ts == Lex(s, 1) IN
    IF ts = << >> \/ \E i \in 1..Len(ts) : ts[i].k = "bad" THEN Fail
    ELSE ParseExpr(ts)

\* The spherical Jacobian written with the Greek letters rho and phi and a
\* superscript two, each one character ("RHO", "PHI", "SUP2")
TxtJacobianoGriego == <<"RHO", "SUP2", "*", "s", "i", "n", "(", "PHI", ")">>

\* What sp.sympify(text) may give.  A superscript two is no character of a
\* Python name, yet the tokenizer of Python up to 3.11 reads it as part of
\* one and sympify then makes a symbol of that name, while later versions
\* reject the text: both outcomes are kept.
Sympificados(s) ==
    IF s = TxtJacobianoGriego
    THEN {Fail, Ok(PMul(PVar("rho_2"), PVar("sin_fi")))}
    ELSE {Sympify(s)}

\* sp.sympify of each text of a family of texts
Analizar(textos) == [k \in DOMAIN textos |-> Sympify(textos[k])]

\* ------------------------------------------------------------ dictionaries
\* A Python dict is a set of <<key, value>> pairs with distinct keys.
HasKey(d, k) == \E kv \in d : kv[1] = k
Lookup(d, k) == (CHOOSE kv \in d : kv[1] = k)[2]
\* d.get(k, default)
Get(d, k, default) == IF HasKey(d, k) THEN Lookup(d, k) ELSE default

\* ------------------------------------------------------------------ state
VARIABLES
    pc,      \* position of the running engine call
    fn,      \* the entry point called: "triple", "green", "divergencia", "stokes"
    args,    \* the arguments of the call
    loc,     \* locals of resolver_integral_triple
    pasos,   \* the step trace under construction
    ret,     \* the returned dict (a record), [nada |-> TRUE] before any return
    exc,     \* the exception that escaped the call, "" when none
    previa,  \* an earlier call and its outcome, as a caller kept them
    app      \* the window: history list, store, current exercise, dialog

vars == <<pc, fn, args, loc, pasos, ret, exc, previa, app>>

Nada == [nada |-> TRUE]
NoArgs == [integrando |-> << >>, variables |-> << >>, limites |-> {},
           sistema |-> "", campo |-> << >>, region |-> "", parametros |-> {},
           sin_parametros |-> FALSE]
\* No earlier call is kept
NoPrevia == [fn |-> "", args |-> NoArgs, ret |-> Nada, exc |-> "", otras |-> FALSE]

\* self.registro_actual = None, and an exercise of a kind and shape
SinRegistro == [titulo |-> "", forma |-> ""]
Registro(titulo, forma) == [titulo |-> titulo, forma |-> forma]

\* No DialogoEntrada is up.  A dialog is that of one handler ("green",
\* "triple"), open or closed, with its resultados (nulo when None);
\* aceptado records that a click on Aceptar closed it.
SinDialogo == [de |-> "", sistema |-> "", abierto |-> FALSE, aceptado |-> FALSE,
               nulo |-> FALSE, resultados |-> {}]

\* The window after __init__ with no history file: lines 1731, 1769.
\* ultima records how the last handler that touches the current exercise
\* ended.
AppInicial == [historial |-> << >>, archivo |-> << >>, registro_actual |-> SinRegistro,
               dialogo |-> SinDialogo, ultima |-> ""]

NoLoc == [expr |-> PZero, jacobiano |-> PZero, aplicar_jacobiano |-> TRUE, i |-> 1]

\* One line of a step trace: its kind, and the step number, variable and
\* expression it prints (0, "" and the zero expression when it prints none)
Linea(k, i, v, e) == [k |-> k, i |-> i, v |-> v, e |-> e]
L0(k) == Linea(k, 0, "", PZero)

\* ------------------------------------------------ resolver_integral_triple
\* Texts the model draws
Txt1 == <<"1">>
TxtZ == <<"z">>
TxtX == <<"x">>
TxtXY == <<"x", "*", "y">>
TxtMal == <<"x", "*">>
Txt0 == <<"0">>
TxtPi == <<"p", "i">>
Txt2Pi == <<"2", "*", "p", "i">>
TxtPiMedio == <<"p", "i", "/", "2">>

\* The decimal text of a small natural number
TxtNum(n) == <<CHOOSE c \in Digits : DigitVal(c) = n>>

\* Detection of a Jacobian already written by the user, cylindrical case
DetectaCilindricas(integrando) ==
    LET integrando_limpio == Limpio(integrando) IN
    \/ integrando_limpio = <<"r">>
    \/ \E pre \in {<<"r", "+">>, <<"r", "-">>, <<"r", "*">>, <<"r", "/">>,
                   <<"r", "*", "*">>} : StartsWith(integrando_limpio, pre)
    \/ Contains(integrando_limpio, <<"r", "*", "z">>)
    \/ Contains(integrando_limpio, <<"r", "*", "t", "h", "e", "t", "a">>)
    \/ integrando_limpio \in {<<"r", "+", "z">>, <<"r", "-", "z">>,
                              <<"r", "+", "t", "h", "e", "t", "a">>,
                              <<"r", "-", "t", "h", "e", "t", "a">>}

\* Detection of a Jacobian already written by the user, spherical case
DetectaEsfericas(integrando) ==
    LET integrando_limpio == Limpio(integrando)
        sinphi == <<"s", "i", "n", "(", "p", "h", "i", ")">>
        jacobiano_completo ==
            \/ Contains(integrando_limpio, <<"r", "h", "o", "*", "*", "2", "*">> \o sinphi)
            \/ Contains(integrando_limpio, <<"r", "*", "*", "2", "*">> \o sinphi)
            \/ Contains(integrando_limpio, TxtJacobianoGriego)
            \/ integrando_limpio = <<"r", "h", "o", "*", "*", "2">>
            \/ integrando_limpio = <<"r", "*", "*", "2">>
        jacobiano_parcial ==
            \/ /\ Contains(integrando_limpio, <<"r", "h", "o", "*", "*", "2", "*">>)
               /\ Contains(integrando_limpio, sinphi)
            \/ /\ Contains(integrando_limpio, <<"r", "*", "*", "2", "*">>)
               /\ Contains(integrando_limpio, sinphi)
    IN  jacobiano_completo \/ jacobiano_parcial

EsRectangular(s) == s \in {"rectangular", "rectangulares"}
EsCilindrica(s) == s \in {"cilindrica", "cilindricas"}
EsEsferica(s) == s \in {"esferica", "esfericas"}

\* The Jacobian of the coordinate system
Jacobiano(s) ==
    IF EsRectangular(s) THEN PInt(1)
    ELSE IF EsCilindrica(s) THEN PVar("r")
    ELSE PMul(PPow(PVar("rho"), 2), PVar("sin"))

\* The call ends with an exception escaping to the caller
Raise(e) ==
    /\ pc' = "fin"
    /\ exc' = e
    /\ ret' = Nada

\* The call ends returning the dict d
Return(d) ==
    /\ pc' = "fin"
    /\ exc' = ""
    /\ ret' = d

\* Lines 60-85: symbols, locals table, Jacobian and the header lines of the
\* trace; an unrecognised system raises ValueError.
RIT_Sistema ==
    /\ pc = "rit_sistema"
    /\ IF EsRectangular(args.sistema) \/ EsCilindrica(args.sistema) \/ EsEsferica(args.sistema)
       THEN /\ pc' = "rit_parse"
            /\ loc' = [loc EXCEPT !.jacobiano = Jacobiano(args.sistema)]
            /\ pasos' = <<Linea("titulo", 0, args.sistema, PZero), L0("formula")>>
            /\ UNCHANGED <<ret, exc>>
       ELSE /\ Raise("ValueError")
            /\ UNCHANGED <<loc, pasos>>
    /\ UNCHANGED <<fn, args>>
    /\ UNCHANGED <<previa, app>>

\* Lines 88-90: the integrand is parsed against the locals table
RIT_Parse ==
    /\ pc = "rit_parse"
    /\ \E e \in Sympificados(args.integrando) :
       IF e.ok
       THEN /\ pc' = "rit_jacobiano"
            /\ loc' = [loc EXCEPT !.expr = e.p]
            /\ pasos' = Append(pasos, L0("integrando_inicial"))
            /\ UNCHANGED <<ret, exc>>
       ELSE /\ Raise("SympifyError")
            /\ UNCHANGED <<loc, pasos>>
    /\ UNCHANGED <<fn, args>>
    /\ UNCHANGED <<previa, app>>

\* Lines 92-139: the Jacobian decision.  The cylindrical branch only records
\* a detection; the spherical branch records a detection or multiplies.
RIT_Jacobiano ==
    /\ pc = "rit_jacobiano"
    /\ pc' = "rit_bucle"
    /\ IF EsCilindrica(args.sistema)
       THEN IF DetectaCilindricas(args.integrando)
            THEN /\ loc' = [loc EXCEPT !.aplicar_jacobiano = FALSE, !.i = 1]
                 /\ pasos' = pasos \o <<L0("nota_jacobiano"),
                                        Linea("integrando_final", 0, "", loc.expr)>>
            ELSE /\ loc' = [loc EXCEPT !.aplicar_jacobiano = TRUE, !.i = 1]
                 /\ pasos' = pasos
       ELSE IF EsEsferica(args.sistema)
       THEN IF DetectaEsfericas(args.integrando)
            THEN /\ loc' = [loc EXCEPT !.aplicar_jacobiano = FALSE, !.i = 1]
                 /\ pasos' = pasos \o <<L0("nota_jacobiano"),
                                        Linea("integrando_final", 0, "", loc.expr)>>
            ELSE /\ loc' = [loc EXCEPT !.aplicar_jacobiano = TRUE, !.i = 1,
                                       !.expr = PMul(loc.expr, loc.jacobiano)]
                 /\ pasos' = Append(pasos, Linea("multiplicando_jacobiano", 0, "",
                                                 PMul(loc.expr, loc.jacobiano)))
       ELSE /\ loc' = [loc EXCEPT !.aplicar_jacobiano = TRUE, !.i = 1]
            /\ pasos' = pasos
    /\ UNCHANGED <<fn, args, ret, exc>>
    /\ UNCHANGED <<previa, app>>

\* The integration of one variable with the lower bound taken as 0
IntegrarVariableDesdeCero(expr, var, a, b) ==
    IF var = "phi" THEN IntegrarAngulo(expr, var, "cos", "sin", PZero, b)
    ELSE PIntegrate(expr, var, PZero, b)

\* sp.integrate(expr_actual, (var_sym, a, b)) followed by sp.simplify
IntegrarVariable(expr, var, a, b) ==
    IF var = "phi" THEN IntegrarAngulo(expr, var, "cos", "sin", a, b)
    ELSE PIntegrate(expr, var, a, b)

\* One pass of the loop that integrates the current expression and records
\* the partial result but does not carry it forward
RIT_PasoSinArrastre ==
    /\ pc = "rit_bucle"
    /\ loc.i <= Len(args.variables)
    /\ LET var == args.variables[loc.i] IN
       IF ~HasKey(args.limites, var)
       THEN /\ Raise("KeyError")
            /\ UNCHANGED <<loc, pasos>>
       ELSE \E lim \in {Analizar(Lookup(args.limites, var))} :
                IF ~lim[1].ok \/ ~lim[2].ok
                THEN /\ Raise("SympifyError")
                     /\ UNCHANGED <<loc, pasos>>
                ELSE \E res \in {IntegrarVariable(loc.expr, var, lim[1].p, lim[2].p)} :
                     /\ loc' = [loc EXCEPT !.i = loc.i + 1]
                     /\ pasos' = pasos \o
                            <<Linea("paso", loc.i, var, PZero),
                              Linea("integral", loc.i, var, loc.expr),
                              Linea("parcial", loc.i, var, res)>>
                     /\ UNCHANGED <<pc, ret, exc>>
    /\ UNCHANGED <<fn, args>>
    /\ UNCHANGED <<previa, app>>

\* One pass of the loop that inserts its lines at the head of the trace
RIT_PasoAlPrincipio ==
    /\ pc = "rit_bucle"
    /\ loc.i <= Len(args.variables)
    /\ LET var == args.variables[loc.i] IN
       IF ~HasKey(args.limites, var)
       THEN /\ Raise("KeyError")
            /\ UNCHANGED <<loc, pasos>>
       ELSE \E lim \in {Analizar(Lookup(args.limites, var))} :
                IF ~lim[1].ok \/ ~lim[2].ok
                THEN /\ Raise("SympifyError")
                     /\ UNCHANGED <<loc, pasos>>
                ELSE \E res \in {IntegrarVariable(loc.expr, var, lim[1].p, lim[2].p)} :
                     /\ loc' = [loc EXCEPT !.expr = res, !.i = loc.i + 1]
                     /\ pasos' = <<Linea("paso", loc.i, var, PZero),
                                   Linea("integral", loc.i, var, loc.expr),
                                   Linea("parcial", loc.i, var, res)>> \o pasos
                     /\ UNCHANGED <<pc, ret, exc>>
    /\ UNCHANGED <<fn, args>>
    /\ UNCHANGED <<previa, app>>

\* Lines 144-157: one pass of the integration loop, for the i-th variable
RIT_Paso ==
    /\ pc = "rit_bucle"
    /\ loc.i <= Len(args.variables)
    /\ LET var == args.variables[loc.i] IN
       IF ~HasKey(args.limites, var)
       THEN /\ Raise("KeyError")
            /\ UNCHANGED <<loc, pasos>>
       ELSE \E lim \in {Analizar(Lookup(args.limites, var))} :
                IF ~lim[1].ok \/ ~lim[2].ok
                THEN /\ Raise("SympifyError")
                     /\ UNCHANGED <<loc, pasos>>
                ELSE \E res \in {IntegrarVariable(loc.expr, var, lim[1].p, lim[2].p)} :
                     /\ loc' = [loc EXCEPT !.expr = res, !.i = loc.i + 1]
                     /\ pasos' = pasos \o
                            <<Linea("paso", loc.i, var, PZero),
                              Linea("integral", loc.i, var, loc.expr),
                              Linea("parcial", loc.i, var, res)>>
                     /\ UNCHANGED <<pc, ret, exc>>
    /\ UNCHANGED <<fn, args>>
    /\ UNCHANGED <<previa, app>>

\* Lines 159-161: the final symbolic result
RIT_Final ==
    /\ pc = "rit_bucle"
    /\ loc.i > Len(args.variables)
    /\ pc' = "rit_numerico"
    /\ pasos' = Append(pasos, Linea("final", 0, "", loc.expr))
    /\ UNCHANGED <<fn, args, loc, ret, exc>>
    /\ UNCHANGED <<previa, app>>

\* The numeric evaluation without its try: a result that cannot be evaluated
\* ends the call with the exception of float()
RIT_NumericoSinTry ==
    /\ pc = "rit_numerico"
    /\ IF FreeSymbols(loc.expr) = {}
       THEN /\ pasos' = Append(pasos, Linea("numerico", 0, "", loc.expr))
            /\ Return([resultado |-> loc.expr,
                       pasos |-> Append(pasos, Linea("numerico", 0, "", loc.expr))])
       ELSE /\ Raise("TypeError")
            /\ UNCHANGED pasos
    /\ UNCHANGED <<fn, args, loc>>
    /\ UNCHANGED <<previa, app>>

\* Lines 163-173: the numeric evaluation attempt, and the return
RIT_Numerico ==
    /\ pc = "rit_numerico"
    /\ LET fin == IF FreeSymbols(loc.expr) = {}
                  THEN Append(pasos, Linea("numerico", 0, "", loc.expr))
                  ELSE Append(pasos, L0("no_numerico"))
       IN  /\ pasos' = fin
           /\ Return([resultado |-> loc.expr, pasos |-> fin])
    /\ UNCHANGED <<fn, args, loc>>
    /\ UNCHANGED <<previa, app>>

\* ------------------------------------------------------------ aplicar_green
\* The integrand P*dx/dt + Q*dy/dt on the arc x = xc, y = yc given in
\* cos(t), sin(t), integrated for t from lo to hi
LineaArco(P, Q, xc, yc, lo, hi) ==
    IntegralAng(Mas(Por(Sust2(P, xc, yc), DerivAng(xc)),
                    Por(Sust2(Q, xc, yc), DerivAng(yc))),
                "t", lo, hi)

\* The integrand P*dx/dt + Q*dy/dt on the segment x = xs, y = ys given in
\* t, integrated for t from lo to hi
LineaSegmento(P, Q, xs, ys, lo, hi) ==
    Integral(Mas(Por(Sust2(P, xs, ys), Deriv(xs, "t")),
                 Por(Sust2(Q, xs, ys), Deriv(ys, "t"))),
             "t", lo, hi)

\* The point (cx + R*cos(t), cy + R*sin(t)), one coordinate each
EnArcoX(cx, R) == Mas(cx, Por(R, Sim("cos")))
EnArcoY(cy, R) == Mas(cy, Por(R, Sim("sin")))

\* rot.subs({x: cx + r*cos(theta), y: cy + r*sin(theta)}) * r, integrated
\* over r from r0 to r1 and then over theta from lo to hi
DoblePolar(rot, cx, cy, r0, r1, lo, hi) ==
    IntegralAng(Integral(Por(Sust2(rot, EnArcoX(cx, Sim("r")), EnArcoY(cy, Sim("r"))),
                             Sim("r")),
                         "r", r0, r1),
                "theta", lo, hi)

\* The disco branch with the area of the disc taken as pi*R
GreenDiscoAreaLineal(P, Q, rot, v, d) ==
    LET R == v["R"]
        centro_x == v["centro_x"]
        centro_y == v["centro_y"]
        area_disco == Por(Sim("pi"), R)
        resultado_doble ==
            IF IsConstant(rot.p) THEN Por(rot, area_disco)
            ELSE DoblePolar(rot, centro_x, centro_y, Num(0), R, Ang(0), Ang(4))
        resultado_linea ==
            LineaArco(P, Q, EnArcoX(centro_x, R), EnArcoY(centro_y, R), Ang(0), Ang(4))
    IN  [doble |-> resultado_doble, linea |-> resultado_linea]

\* Lines 450-498
GreenDisco(P, Q, rot, v, d) ==
    LET R == v["R"]
        centro_x == v["centro_x"]
        centro_y == v["centro_y"]
        area_disco == Por(Sim("pi"), Pot(R, 2))
        resultado_doble ==
            IF IsConstant(rot.p) THEN Por(rot, area_disco)
            ELSE DoblePolar(rot, centro_x, centro_y, Num(0), R, Ang(0), Ang(4))
        resultado_linea ==
            LineaArco(P, Q, EnArcoX(centro_x, R), EnArcoY(centro_y, R), Ang(0), Ang(4))
    IN  [doble |-> resultado_doble, linea |-> resultado_linea]

\* Lines 500-543
GreenCorona(P, Q, rot, v, d) ==
    LET R_int == v["R_int"]
        R_ext == v["R_ext"]
        centro_x == v["centro_x"]
        centro_y == v["centro_y"]
        resultado_doble ==
            DoblePolar(rot, centro_x, centro_y, R_int, R_ext, Ang(0), Ang(4))
        linea_ext == LineaArco(P, Q, EnArcoX(centro_x, R_ext), EnArcoY(centro_y, R_ext),
                               Ang(0), Ang(4))
        linea_int == LineaArco(P, Q, EnArcoX(centro_x, R_int), EnArcoY(centro_y, R_int),
                               Ang(4), Ang(0))
    IN  [doble |-> resultado_doble, linea |-> Mas(linea_ext, linea_int)]

\* The rectangulo branch with the top side integrated from left to right
GreenRectanguloSinInvertir(P, Q, rot, v, d) ==
    LET a == v["a"]
        b == v["b"]
        x0 == v["x0"]
        y0 == v["y0"]
        t == Sim("t")
        resultado_doble ==
            Integral(Integral(rot, "x", x0, Mas(x0, a)), "y", y0, Mas(y0, b))
        int1 == Integral(Sust2(P, t, y0), "t", x0, Mas(x0, a))
        int2 == Integral(Sust2(Q, Mas(x0, a), t), "t", y0, Mas(y0, b))
        int3 == Integral(Sust2(P, t, Mas(y0, b)), "t", x0, Mas(x0, a))
        int4 == Integral(Sust2(Q, x0, t), "t", Mas(y0, b), y0)
    IN  [doble |-> resultado_doble, linea |-> Mas(Mas(int1, int2), Mas(int3, int4))]

\* Lines 545-580
GreenRectangulo(P, Q, rot, v, d) ==
    LET a == v["a"]
        b == v["b"]
        x0 == v["x0"]
        y0 == v["y0"]
        t == Sim("t")
        resultado_doble ==
            Integral(Integral(rot, "x", x0, Mas(x0, a)), "y", y0, Mas(y0, b))
        int1 == Integral(Sust2(P, t, y0), "t", x0, Mas(x0, a))
        int2 == Integral(Sust2(Q, Mas(x0, a), t), "t", y0, Mas(y0, b))
        int3 == Integral(Sust2(P, t, Mas(y0, b)), "t", Mas(x0, a), x0)
        int4 == Integral(Sust2(Q, x0, t), "t", Mas(y0, b), y0)
    IN  [doble |-> resultado_doble, linea |-> Mas(Mas(int1, int2), Mas(int3, int4))]

\* Lines 582-616
GreenElipse(P, Q, rot, v, d) ==
    LET a == v["a"]
        b == v["b"]
        centro_x == v["centro_x"]
        centro_y == v["centro_y"]
        r == Sim("r")
        jacobiano == Por(Por(a, b), r)
        integrando ==
            Por(Sust2(rot, EnArcoX(centro_x, Por(a, r)), EnArcoY(centro_y, Por(b, r))),
                jacobiano)
        resultado_doble ==
            IntegralAng(Integral(integrando, "r", Num(0), Num(1)), "theta", Ang(0), Ang(4))
        resultado_linea ==
            LineaArco(P, Q, EnArcoX(centro_x, a), EnArcoY(centro_y, b), Ang(0), Ang(4))
    IN  [doble |-> resultado_doble, linea |-> resultado_linea]

\* Lines 618-654.  The double integral is taken over x first, between the
\* constant bounds, and then over y up to the bound that depends on x.
GreenTriangulo(P, Q, rot, v, d) ==
    LET base == v["base"]
        altura == v["altura"]
        x0 == v["x0"]
        y0 == v["y0"]
        t == Sim("t")
        y_sup == Mas(y0, Por(altura, Menos(Num(1), Entre(Menos(Sim("x"), x0), base))))
        resultado_doble ==
            Integral(Integral(rot, "x", x0, Mas(x0, base)), "y", y0, y_sup)
        int1 == Integral(Sust2(P, t, y0), "t", x0, Mas(x0, base))
        int2 == LineaSegmento(P, Q, Mas(x0, Por(base, Menos(Num(1), t))),
                              Mas(y0, Por(altura, t)), Num(0), Num(1))
        int3 == Integral(Sust2(Q, x0, t), "t", Mas(y0, altura), y0)
    IN  [doble |-> resultado_doble, linea |-> Mas(Mas(int1, int2), int3)]

\* Lines 656-709
GreenSemicirculo(P, Q, rot, v, d) ==
    LET R == v["R"]
        tipo == Get(d, "tipo", "superior")
        centro_x == v["centro_x"]
        centro_y == v["centro_y"]
        theta_min == IF tipo = "superior" THEN Ang(0) ELSE Ang(2)
        theta_max == IF tipo = "superior" THEN Ang(2) ELSE Ang(4)
        resultado_doble ==
            DoblePolar(rot, centro_x, centro_y, Num(0), R, theta_min, theta_max)
        linea_arco == LineaArco(P, Q, EnArcoX(centro_x, R), EnArcoY(centro_y, R),
                                theta_min, theta_max)
        linea_diam ==
            IF tipo = "superior"
            THEN Integral(Sust2(P, Sim("t"), centro_y), "t",
                          Mas(centro_x, R), Menos(centro_x, R))
            ELSE Integral(Sust2(P, Sim("t"), centro_y), "t",
                          Menos(centro_x, R), Mas(centro_x, R))
    IN  [doble |-> resultado_doble, linea |-> Mas(linea_arco, linea_diam)]

\* P(t, f(t)) + Q(t, f(t))*f'(t), the integrand along the curve y = f(x)
SobreCurva(P, Q, f) ==
    Mas(Sust2(P, Sim("t"), Sust(f, "x", Sim("t"))),
        Por(Sust2(Q, Sim("t"), Sust(f, "x", Sim("t"))),
            Sust(Deriv(f, "x"), "x", Sim("t"))))

\* Lines 711-813, for curves f1, f2 that parse
GreenEntreCurvas(P, Q, rot, v, d) ==
    LET f1 == v["f1"]
        f2 == v["f2"]
        x_min == v["x_min"]
        x_max == v["x_max"]
        integral_respecto_y == Integral(rot, "y", f1, f2)
        resultado_doble == Integral(integral_respecto_y, "x", x_min, x_max)
        int1 == Integral(SobreCurva(P, Q, f1), "t", x_min, x_max)
        int2 == Integral(Sust2(Q, x_max, Sim("t")), "t",
                         Sust(f1, "x", x_max), Sust(f2, "x", x_max))
        int3 == Integral(SobreCurva(P, Q, f2), "t", x_max, x_min)
        int4 == Integral(Sust2(Q, x_min, Sim("t")), "t",
                         Sust(f2, "x", x_min), Sust(f1, "x", x_min))
    IN  [doble |-> resultado_doble, linea |-> Mas(Mas(int1, int2), Mas(int3, int4)),
         integral_y |-> integral_respecto_y,
         int1 |-> int1, int2 |-> int2, int3 |-> int3, int4 |-> int4]

\* The ray x = t*cos(theta), y = t*sin(theta) of a sector at the whole
\* quarter turn q, integrated for t from lo to hi
LineaRadio(P, Q, q, lo, hi) ==
    LineaSegmento(P, Q, Por(Sim("t"), Num(CosQ(q))), Por(Sim("t"), Num(SinQ(q))), lo, hi)

\* Lines 815-857
GreenSectorPolar(P, Q, rot, v, d) ==
    LET R == v["R"]
        theta_min == v["theta_min"]
        theta_max == v["theta_max"]
        resultado_doble ==
            DoblePolar(rot, Num(0), Num(0), Num(0), R, theta_min, theta_max)
        linea_arco == LineaArco(P, Q, EnArcoX(Num(0), R), EnArcoY(Num(0), R),
                                theta_min, theta_max)
        linea_rad1 == LineaRadio(P, Q, Quarter(theta_min.p), R, Num(0))
        linea_rad2 == LineaRadio(P, Q, Quarter(theta_max.p), Num(0), R)
    IN  [doble |-> resultado_doble, linea |-> Mas(Mas(linea_arco, linea_rad1), linea_rad2)]

\* int(text): the digits of a natural number, or a failure (ValueError)
IntPy(s) ==
    IF s # << >> /\ \A i \in 1..Len(s) : s[i] \in Digits
    THEN [ok |-> TRUE, n |-> NumVal(s)] ELSE [ok |-> FALSE, n |-> 0]

\* lados*(2*sin(pi/lados))**2 / (4*tan(pi/lados)), the area of the polygon
\* of radius 1, for the side counts where it is rational or a multiple of
\* sqrt(3), and for the pentagon, where it is the constant "k5"; for two
\* sides tan(pi/2) is sympy's infinity and the quotient is 0
FactorPoligono(lados) ==
    CASE lados = 2 -> PZero
      [] lados = 3 -> {[c |-> Rat(3, 4), e |-> EVar("sqrt3")]}
      [] lados = 4 -> PInt(2)
      [] lados = 5 -> PVar("k5")
      [] lados = 6 -> {[c |-> Rat(3, 2), e |-> EVar("sqrt3")]}

\* (lados*(2*radio*sin(pi/lados))**2) / (4*tan(pi/lados))
AreaPoligono(lados, radio) == Por(Val(FactorPoligono(lados)), Pot(radio, 2))

\* Lines 859-895
GreenPoligono(P, Q, rot, v, d) ==
    LET lados == IntPy(Get(d, "lados", TxtNum(5))).n
        radio == v["radio"]
        centro_x == v["centro_x"]
        centro_y == v["centro_y"]
        area_poligono == AreaPoligono(lados, radio)
        rotacional_medio == Sust2(rot, centro_x, centro_y)
        resultado_doble ==
            IF IsConstant(rot.p) THEN Por(rot, area_poligono)
            ELSE Por(rotacional_medio, area_poligono)
    IN  [doble |-> resultado_doble]

\* The lines every _explicacion_* helper appends: the confirmation line is
\* added when the two values are the same expression.
Explicacion(doble, linea) ==
    <<L0("interpretacion"), L0("explicacion")>>
    \o (IF doble = linea THEN <<L0("confirmacion")>> ELSE << >>)

\* The lines a region's branch appends to the trace for the values g it
\* computed: disco names the shortcut when it is taken (461-480),
\* entre_curvas holds every partial integral (732-800), poligono says that
\* only the double integral was computed (871-884)
PasosRegion(region, rot, g) ==
    CASE region = "disco" ->
            <<L0("region"),
              IF IsConstant(rot) THEN Linea("atajo_constante", 0, "", g.doble)
              ELSE Linea("integral_doble", 0, "", g.doble),
              Linea("integral_linea", 0, "", g.linea)>>
      [] region = "entre_curvas" ->
            <<L0("region"),
              Linea("integral_y", 1, "y", g.integral_y),
              Linea("integral_x", 2, "x", g.doble),
              Linea("integral_doble", 0, "", g.doble),
              Linea("segmento", 1, "", g.int1),
              Linea("segmento", 2, "", g.int2),
              Linea("segmento", 3, "", g.int3),
              Linea("segmento", 4, "", g.int4),
              Linea("integral_linea", 0, "", g.linea)>>
      [] region = "poligono" ->
            <<L0("region"),
              IF IsConstant(rot) THEN Linea("atajo_constante", 0, "", g.doble)
              ELSE Linea("aproximacion", 0, "", g.doble),
              L0("nota_solo_doble")>>
      [] OTHER ->
            <<L0("region"), Linea("integral_doble", 0, "", g.doble),
              Linea("integral_linea", 0, "", g.linea)>>

\* _verificar_green with the comparison left out: the verified mark is
\* appended whatever the two values are
VerificarGreenSinComparar(doble, linea, pasos_previos, info) ==
    [doble |-> doble, linea |-> linea,
     pasos |-> pasos_previos
               \o <<L0("verificacion"), Linea("integral_doble", 0, "", doble),
                    Linea("integral_linea", 0, "", linea), L0("verificado")>>,
     info |-> info]

\* Lines 900-913
VerificarGreen(doble, linea, pasos_previos, info) ==
    [doble |-> doble, linea |-> linea,
     pasos |-> pasos_previos
               \o <<L0("verificacion"), Linea("integral_doble", 0, "", doble),
                    Linea("integral_linea", 0, "", linea)>>
               \o (IF PSub(doble, linea) = PZero THEN <<L0("verificado")>>
                   ELSE <<Linea("diferencia", 0, "", PSub(doble, linea))>>),
     info |-> info]

RegionesGreen == {"disco", "corona", "rectangulo", "elipse", "triangulo",
                  "semicirculo", "entre_curvas", "sector_polar", "poligono"}

\* The numeric parameters a region reads with sp.sympify outside any try
ClavesNumericas(region) ==
    CASE region \in {"disco", "semicirculo"} -> {"R", "centro_x", "centro_y"}
      [] region = "corona" -> {"R_int", "R_ext", "centro_x", "centro_y"}
      [] region = "rectangulo" -> {"a", "b", "x0", "y0"}
      [] region = "elipse" -> {"a", "b", "centro_x", "centro_y"}
      [] region = "triangulo" -> {"base", "altura", "x0", "y0"}
      [] region = "entre_curvas" -> {"x_min", "x_max"}
      [] region = "sector_polar" -> {"R", "theta_min", "theta_max"}
      [] region = "poligono" -> {"radio", "centro_x", "centro_y"}

\* The curve parameters entre_curvas reads with sp.sympify inside a try
ClavesCurvas(region) == IF region = "entre_curvas" THEN {"f1", "f2"} ELSE {}

\* The default text of parametros_region.get(key, default) in each branch
DefectoGreen(region, k) ==
    CASE k = "R" -> (IF region = "disco" THEN Txt1 ELSE TxtNum(2))
      [] k \in {"centro_x", "centro_y", "x0", "y0", "x_min", "theta_min"} -> Txt0
      [] k = "R_int" -> Txt1
      [] k = "R_ext" -> TxtNum(2)
      [] k = "a" -> (IF region = "elipse" THEN TxtNum(2) ELSE Txt1)
      [] k = "b" -> Txt1
      [] k = "base" -> TxtNum(2)
      [] k = "altura" -> TxtNum(3)
      [] k = "x_max" -> TxtNum(2)
      [] k = "theta_max" -> TxtPiMedio
      [] k = "radio" -> TxtNum(2)
      [] k = "f1" -> <<"x", "*", "*", "2">>
      [] k = "f2" -> <<"4">>

\* Every parameter of the region, parsed
AnalizarGreen(region, d) ==
    Analizar([k \in ClavesNumericas(region) \cup ClavesCurvas(region) |->
                 Get(d, k, DefectoGreen(region, k))])

GreenRegion(P, Q, rot, region, v, d) ==
    CASE region = "disco" -> GreenDisco(P, Q, rot, v, d)
      [] region = "corona" -> GreenCorona(P, Q, rot, v, d)
      [] region = "rectangulo" -> GreenRectangulo(P, Q, rot, v, d)
      [] region = "elipse" -> GreenElipse(P, Q, rot, v, d)
      [] region = "triangulo" -> GreenTriangulo(P, Q, rot, v, d)
      [] region = "semicirculo" -> GreenSemicirculo(P, Q, rot, v, d)
      [] region = "entre_curvas" -> GreenEntreCurvas(P, Q, rot, v, d)
      [] region = "sector_polar" -> GreenSectorPolar(P, Q, rot, v, d)
      [] region = "poligono" -> GreenPoligono(P, Q, rot, v, d)

\* An engine call's outcome: the dict returned, or the exception escaping
Devuelve(d) == [ret |-> d, exc |-> ""]
Lanza(e) == [ret |-> Nada, exc |-> e]

\* Lines 414-446: the header of the trace
CabeceraGreen(rot) ==
    <<L0("campo"), L0("derivadas"), Linea("rotacional", 0, "", rot)>>

InfoTeorema == <<L0("teorema"), L0("formula_teorema")>>

\* The region's return with poligono sent through _verificar_green like the
\* other shapes
ResultadoGreenVerificado(region, rot, g) ==
    VerificarGreen(g.doble, IF region = "poligono" THEN g.doble ELSE g.linea,
                   CabeceraGreen(rot) \o PasosRegion(region, rot, g)
                   \o Explicacion(g.doble, g.doble),
                   InfoTeorema)

\* The dict a region's branch returns for the values g it computed:
\* poligono returns its own, whose line slot repeats the double integral,
\* the others what _verificar_green returns
ResultadoGreen(region, rot, g) ==
    IF region = "poligono"
    THEN [doble |-> g.doble, linea |-> g.doble,
          pasos |-> CabeceraGreen(rot) \o PasosRegion(region, rot, g)
                    \o Explicacion(g.doble, g.doble),
          info |-> InfoTeorema]
    ELSE VerificarGreen(g.doble, g.linea,
                        CabeceraGreen(rot) \o PasosRegion(region, rot, g)
                        \o Explicacion(g.doble, g.linea),
                        InfoTeorema)

\* Lines 437-446 and the region's branch, for parameters that parse
GreenCalculado(P, Q, rot, region, v, d) ==
    Devuelve(ResultadoGreen(region, rot,
        EvaluarTodo(GreenRegion(Val(P), Val(Q), Val(rot), region,
                                [k \in DOMAIN v |-> Val(v[k])], d))))

\* Two texts sp.sympify reads without error as something that is no
\* expression: "None" gives None, and a text with a comma gives a tuple
TxtNone == <<"N", "o", "n", "e">>
TxtPar == <<"x", ",", "1">>
ClaseDeCurva(texto) ==
    IF texto = TxtNone THEN "none"
    ELSE IF Contains(texto, <<",">>) THEN "tupla"
    ELSE "expr"

\* The curve texts of the call that sp.sympify rejects (lines 718-722)
CurvasFallidas(region, an, d) ==
    {k \in ClavesCurvas(region) :
        ~an[k].ok /\ ClaseDeCurva(Get(d, k, DefectoGreen(region, k))) = "expr"}

\* The stage of entre_curvas that raises, if one does.  Lines 732-746: a
\* tuple as a limit of sp.integrate raises ValueError (None as a limit
\* leaves that side open).  Lines 755-800: f1.subs and f2.subs raise
\* AttributeError on None.
EtapaFallida(region, d) ==
    LET clases == {ClaseDeCurva(Get(d, k, DefectoGreen(region, k))) :
                      k \in ClavesCurvas(region)}
    IN  IF "tupla" \in clases THEN "doble"
        ELSE IF "none" \in clases THEN "linea"
        ELSE ""

\* Lines 745-746 and 799-800
ErrorDeEtapa(etapa) ==
    IF etapa = "doble" THEN [error |-> "Error en integral doble"]
    ELSE [error |-> "Error en integral de linea"]

\* The region's branch with one handler round both stages of entre_curvas
GreenConParametrosUnaEtapa(P, Q, region, an, d) ==
    IF \E k \in ClavesNumericas(region) : ~an[k].ok THEN Lanza("SympifyError")
    ELSE IF CurvasFallidas(region, an, d) # {}
    THEN Devuelve([error |-> "Error analizando las curvas"])
    ELSE IF EtapaFallida(region, d) # ""
    THEN Devuelve([error |-> "Error en integral doble"])
    ELSE GreenCalculado(P, Q, PSub(PDiff(Q, "x"), PDiff(P, "y")), region,
                        [k \in DOMAIN an |-> an[k].p], d)

\* The region's branch returning the trace built so far together with the
\* error of a curve that does not parse
GreenConParametrosYTraza(P, Q, region, an, d) ==
    IF \E k \in ClavesNumericas(region) : ~an[k].ok THEN Lanza("SympifyError")
    ELSE IF CurvasFallidas(region, an, d) # {}
    THEN Devuelve([error |-> "Error analizando las curvas",
                   pasos |-> CabeceraGreen(PSub(PDiff(Q, "x"), PDiff(P, "y")))])
    ELSE IF EtapaFallida(region, d) # ""
    THEN Devuelve(ErrorDeEtapa(EtapaFallida(region, d)))
    ELSE GreenCalculado(P, Q, PSub(PDiff(Q, "x"), PDiff(P, "y")), region,
                        [k \in DOMAIN an |-> an[k].p], d)

\* The region's branch from its first line: the parameters are parsed
\* (an.), a text that does not parse raises, a curve that does not parse
\* returns an error, and so does a stage of entre_curvas that raises
GreenConParametros(P, Q, region, an, d) ==
    IF \E k \in ClavesNumericas(region) : ~an[k].ok THEN Lanza("SympifyError")
    ELSE IF CurvasFallidas(region, an, d) # {}
    THEN Devuelve([error |-> "Error analizando las curvas"])
    ELSE IF EtapaFallida(region, d) # ""
    THEN Devuelve(ErrorDeEtapa(EtapaFallida(region, d)))
    ELSE GreenCalculado(P, Q, PSub(PDiff(Q, "x"), PDiff(P, "y")), region,
                        [k \in DOMAIN an |-> an[k].p], d)

\* aplicar_green reading its parameters before it looks at the region tag
GreenParametrosPrimero(PQ, region, d, sin_parametros) ==
    IF ~PQ[1].ok \/ ~PQ[2].ok THEN Devuelve([error |-> "Error analizando P o Q"])
    ELSE IF sin_parametros THEN Lanza("AttributeError")
    ELSE IF region \notin RegionesGreen
    THEN Devuelve([error |-> "Region no soportada para el Teorema de Green."])
    ELSE IF region = "poligono" /\ ~IntPy(Get(d, "lados", TxtNum(5))).ok
    THEN Lanza("ValueError")
    ELSE GreenConParametros(PQ[1].p, PQ[2].p, region, AnalizarGreen(region, d), d)

\* Lines 406-412 and 448-898, for the parsed P and Q
GreenAnalizado(PQ, region, d, sin_parametros) ==
    IF ~PQ[1].ok \/ ~PQ[2].ok THEN Devuelve([error |-> "Error analizando P o Q"])
    ELSE IF region \notin RegionesGreen
    THEN Devuelve([error |-> "Region no soportada para el Teorema de Green."])
    ELSE IF sin_parametros THEN Lanza("AttributeError")
    ELSE IF region = "poligono" /\ ~IntPy(Get(d, "lados", TxtNum(5))).ok
    THEN Lanza("ValueError")
    ELSE GreenConParametros(PQ[1].p, PQ[2].p, region, AnalizarGreen(region, d), d)

\* aplicar_green(P_str, Q_str, region, parametros_region), lines 400-898
AplicarGreen(P_str, Q_str, region, d, sin_parametros) ==
    GreenAnalizado(Analizar(<<P_str, Q_str>>), region, d, sin_parametros)

\* ---------------------------------------------------- aplicar_divergencia
DosPi == Ang(4)
Pi == Ang(2)

\* divF.subs(spherical substitution scaled by a, b, c) * jac * rho**2 * sin(phi),
\* integrated over theta, phi and rho (lines 981-1008 and 1107-1134)
VolumenEsferico(divF, a, b, c, jac, radio) ==
    LET rho == Sim("rho")
        integrando ==
            Por(Sust3(divF,
                      Por(a, Por(rho, Por(Sim("sinphi"), Sim("cos")))),
                      Por(b, Por(rho, Por(Sim("sinphi"), Sim("sin")))),
                      Por(c, Por(rho, Sim("cosphi")))),
                Por(jac, Por(Pot(rho, 2), Sim("sinphi"))))
        integral_theta == IntegralAng(integrando, "theta", Num(0), DosPi)
        integral_phi ==
            IntegralAngulo(integral_theta, "phi", "cosphi", "sinphi", Num(0), Pi)
        res_vol == Integral(integral_phi, "rho", Num(0), radio)
    IN  [i1 |-> integral_theta, i2 |-> integral_phi, volumen |-> res_vol]

\* divF.subs({x: r*cos(theta), y: r*sin(theta), z: zs}) * r
IntegrandoCilindrico(divF) ==
    Por(Sust3(divF, Por(Sim("r"), Sim("cos")), Por(Sim("r"), Sim("sin")), Sim("zs")),
        Sim("r"))

\* Lines 959-1017.  (4/3) is a Python float, which makes the product a
\* sympy Float: the factor "fl" marks it.
DivEsfera(divF, v) ==
    LET R == v["R"]
        volumen_esfera ==
            Por(Val({[c |-> Rat(4, 3), e |-> EVar("fl")]}), Por(Sim("pi"), Pot(R, 3)))
    IN  IF IsConstant(divF.p)
        THEN [volumen |-> Por(divF, volumen_esfera)]
        ELSE VolumenEsferico(divF, Num(1), Num(1), Num(1), Num(1), R)

\* Lines 1019-1065
DivCilindro(divF, v) ==
    LET a == v["a"]
        h == v["h"]
        volumen_cilindro == Por(Sim("pi"), Por(Pot(a, 2), h))
        integral_z == Integral(IntegrandoCilindrico(divF), "zs", Num(0), h)
        integral_theta == IntegralAng(integral_z, "theta", Num(0), DosPi)
        res_vol == Integral(integral_theta, "r", Num(0), a)
    IN  IF IsConstant(divF.p)
        THEN [volumen |-> Por(divF, volumen_cilindro)]
        ELSE [i1 |-> integral_z, i2 |-> integral_theta, volumen |-> res_vol]

Mitad(p) == Entre(p, Num(2))
MenosMitad(p) == Menos(Num(0), Mitad(p))

\* Lines 1067-1093
DivCubo(divF, v) ==
    LET a == v["a"]
        b == v["b"]
        c == v["c"]
        integral_z == Integral(divF, "z", MenosMitad(c), Mitad(c))
        integral_y == Integral(integral_z, "y", MenosMitad(b), Mitad(b))
        res_vol == Integral(integral_y, "x", MenosMitad(a), Mitad(a))
    IN  [i1 |-> integral_z, i2 |-> integral_y, volumen |-> res_vol]

\* Lines 1095-1136
DivElipsoide(divF, v) ==
    LET a == v["a"]
        b == v["b"]
        c == v["c"]
    IN  VolumenEsferico(divF, a, b, c, Por(a, Por(b, c)), Num(1))

\* Lines 1138-1174, for a numeric height h
DivCono(divF, v) ==
    LET R == v["R"]
        h == v["h"]
        integral_r == Integral(IntegrandoCilindrico(divF), "r", Num(0),
                               Por(R, Menos(Num(1), Entre(Sim("zs"), h))))
        integral_theta == IntegralAng(integral_r, "theta", Num(0), DosPi)
        res_vol == Integral(integral_theta, "zs", Num(0), h)
    IN  [i1 |-> integral_r, i2 |-> integral_theta, volumen |-> res_vol]

\* Lines 1176-1212
DivEntreSuperficies(divF, v) ==
    LET R_int == v["R_int"]
        R_ext == v["R_ext"]
        h == v["h"]
        integral_z == Integral(IntegrandoCilindrico(divF), "zs", MenosMitad(h), Mitad(h))
        integral_theta == IntegralAng(integral_z, "theta", Num(0), DosPi)
        res_vol == Integral(integral_theta, "r", R_int, R_ext)
    IN  [i1 |-> integral_z, i2 |-> integral_theta, volumen |-> res_vol]

RegionesDivergencia == {"esfera", "cilindro", "cubo", "elipsoide", "cono",
                        "entre_superficies"}

\* The parameters a region reads with sp.sympify
ClavesDivergencia(region) ==
    CASE region = "esfera" -> {"R"}
      [] region = "cilindro" -> {"a", "h"}
      [] region \in {"cubo", "elipsoide"} -> {"a", "b", "c"}
      [] region = "cono" -> {"R", "h"}
      [] region = "entre_superficies" -> {"R_int", "R_ext", "h"}

\* The default text of parametros_region.get(key, default)
DefectoDivergencia(k) == IF k = "R_ext" THEN TxtNum(2) ELSE Txt1

\* Every parameter of the region, parsed
AnalizarDivergencia(region, d) ==
    Analizar([k \in ClavesDivergencia(region) |-> Get(d, k, DefectoDivergencia(k))])

DivRegion(divF, region, v) ==
    CASE region = "esfera" -> DivEsfera(divF, v)
      [] region = "cilindro" -> DivCilindro(divF, v)
      [] region = "cubo" -> DivCubo(divF, v)
      [] region = "elipsoide" -> DivElipsoide(divF, v)
      [] region = "cono" -> DivCono(divF, v)
      [] region = "entre_superficies" -> DivEntreSuperficies(divF, v)

\* The variables a region's branch integrates over, in its order
OrdenDivergencia(region) ==
    CASE region \in {"esfera", "elipsoide"} -> <<"theta", "phi", "rho">>
      [] region \in {"cilindro", "entre_superficies"} -> <<"z", "theta", "r">>
      [] region = "cubo" -> <<"z", "y", "x">>
      [] region = "cono" -> <<"r", "theta", "z">>

\* The lines a region's branch appends to the trace for the values g it
\* computed: one per integration, or the constant-divergence shortcut
PasosVolumen(orden, g) ==
    IF "i1" \in DOMAIN g
    THEN <<L0("region"), Linea("integral", 1, orden[1], g.i1),
           Linea("integral", 2, orden[2], g.i2),
           Linea("integral", 3, orden[3], g.volumen)>>
    ELSE <<L0("region"), Linea("atajo_constante", 0, "", g.volumen)>>

\* A returned dict whose two result slots both hold the volume integral
ResultadoDivergenciaUnaRanura(divF, region, g) ==
    [divergencia |-> g.volumen, volumen |-> g.volumen,
     pasos |-> <<L0("campo"), L0("derivadas"), Linea("divergencia", 0, "", divF)>>
               \o PasosVolumen(OrdenDivergencia(region), g),
     info |-> InfoTeorema]

\* The dict every region's branch returns
ResultadoDivergencia(divF, region, g) ==
    [divergencia |-> divF, volumen |-> g.volumen,
     pasos |-> <<L0("campo"), L0("derivadas"), Linea("divergencia", 0, "", divF)>>
               \o PasosVolumen(OrdenDivergencia(region), g),
     info |-> InfoTeorema]

\* The region's branch, for a divergence computed and parameters parsed
DivCalculada(divF, region, an) ==
    IF \E k \in DOMAIN an : ~an[k].ok THEN Lanza("SympifyError")
    ELSE Devuelve(ResultadoDivergencia(divF, region,
             EvaluarTodo(DivRegion(Val(divF), region, [k \in DOMAIN an |-> Val(an[k].p)]))))

\* Lines 919-924 and 948-1215, for the parsed components F
DivAnalizada(F, region, d, sin_parametros) ==
    IF \E i \in DOMAIN F : ~F[i].ok
    THEN Devuelve([error |-> "Error analizando las componentes del campo"])
    ELSE IF region \notin RegionesDivergencia
    THEN Devuelve([error |-> "Region no soportada para el Teorema de la Divergencia."])
    ELSE IF sin_parametros THEN Lanza("AttributeError")
    ELSE DivCalculada(PSumSeq(<<PDiff(F[1].p, "x"), PDiff(F[2].p, "y"), PDiff(F[3].p, "z")>>),
                      region, AnalizarDivergencia(region, d))

\* aplicar_divergencia(Fx_str, Fy_str, Fz_str, region, parametros_region),
\* lines 916-1215
AplicarDivergencia(Fx_str, Fy_str, Fz_str, region, d, sin_parametros) ==
    DivAnalizada(Analizar(<<Fx_str, Fy_str, Fz_str>>), region, d, sin_parametros)

\* --------------------------------------------------------- aplicar_stokes
\* The curl (comp_x, comp_y, comp_z) of lines 1251-1281
Rotacional(Fx, Fy, Fz) ==
    <<PSub(PDiff(Fz, "y"), PDiff(Fy, "z")),
      PSub(PDiff(Fx, "z"), PDiff(Fz, "x")),
      PSub(PDiff(Fy, "x"), PDiff(Fx, "y"))>>

\* The disco branch with the circle traversed clockwise
StokesDiscoHorario(F, rot, v) ==
    LET R == v["R"]
        rotacional_z == rot[3]
        integrando ==
            Por(Sust3(rotacional_z, Por(Sim("r"), Sim("cos")),
                      Por(Sim("r"), Sim("sin")), Num(0)),
                Sim("r"))
        integral_theta == IntegralAng(integrando, "theta", Num(0), DosPi)
        res_superficie == Integral(integral_theta, "r", Num(0), R)
        x_c == Por(R, Sim("cos"))
        y_c == Menos(Num(0), Por(R, Sim("sin")))
        z_c == Num(0)
        integrando_linea ==
            Mas(Mas(Por(Sust3(F[1], x_c, y_c, z_c), DerivAng(x_c)),
                    Por(Sust3(F[2], x_c, y_c, z_c), DerivAng(y_c))),
                Por(Sust3(F[3], x_c, y_c, z_c), DerivAng(z_c)))
        res_linea == IntegralAng(integrando_linea, "t", Num(0), DosPi)
    IN  [i1 |-> integral_theta, superficie |-> res_superficie, linea |-> res_linea]

\* Lines 1286-1366
StokesDisco(F, rot, v) ==
    LET R == v["R"]
        rotacional_z == rot[3]
        integrando ==
            Por(Sust3(rotacional_z, Por(Sim("r"), Sim("cos")),
                      Por(Sim("r"), Sim("sin")), Num(0)),
                Sim("r"))
        integral_theta == IntegralAng(integrando, "theta", Num(0), DosPi)
        res_superficie == Integral(integral_theta, "r", Num(0), R)
        x_c == Por(R, Sim("cos"))
        y_c == Por(R, Sim("sin"))
        z_c == Num(0)
        integrando_linea ==
            Mas(Mas(Por(Sust3(F[1], x_c, y_c, z_c), DerivAng(x_c)),
                    Por(Sust3(F[2], x_c, y_c, z_c), DerivAng(y_c))),
                Por(Sust3(F[3], x_c, y_c, z_c), DerivAng(z_c)))
        res_linea == IntegralAng(integrando_linea, "t", Num(0), DosPi)
    IN  [i1 |-> integral_theta, superficie |-> res_superficie, linea |-> res_linea]

\* Lines 1368-1408; the normal's magnitude cancels against dS
StokesPlano(rot, v) ==
    LET a == v["a"]
        b == v["b"]
        c == v["c"]
        R == v["R"]
        rcos == Por(Sim("r"), Sim("cos"))
        rsin == Por(Sim("r"), Sim("sin"))
        zsup == Mas(Mas(Por(a, rcos), Por(b, rsin)), c)
        integrando ==
            Por(Mas(Mas(Por(Sust3(rot[1], rcos, rsin, zsup), Menos(Num(0), a)),
                        Por(Sust3(rot[2], rcos, rsin, zsup), Menos(Num(0), b))),
                    Sust3(rot[3], rcos, rsin, zsup)),
                Sim("r"))
    IN  [integrando |-> integrando,
         superficie |-> IntegralAng(Integral(integrando, "r", Num(0), R),
                                    "theta", Num(0), DosPi)]

\* Lines 1410-1446; the normal's magnitude cancels against dS
StokesParaboloide(rot, v) ==
    LET a == v["a"]
        R == v["R"]
        rcos == Por(Sim("r"), Sim("cos"))
        rsin == Por(Sim("r"), Sim("sin"))
        zsup == Menos(a, Pot(Sim("r"), 2))
        integrando ==
            Por(Mas(Mas(Por(Sust3(rot[1], rcos, rsin, zsup), Por(Num(2), rcos)),
                        Por(Sust3(rot[2], rcos, rsin, zsup), Por(Num(2), rsin))),
                    Sust3(rot[3], rcos, rsin, zsup)),
                Sim("r"))
    IN  [integrando |-> integrando,
         superficie |-> IntegralAng(Integral(integrando, "r", Num(0), R),
                                    "theta", Num(0), DosPi)]

\* Lines 1448-1483; "zs" stands for the symbol z_var
StokesCilindro(rot, v) ==
    LET R == v["R"]
        h == v["h"]
        xs == Por(R, Sim("cos"))
        ys == Por(R, Sim("sin"))
        integrando ==
            Por(Mas(Por(Sust3(rot[1], xs, ys, Sim("zs")), Sim("cos")),
                    Por(Sust3(rot[2], xs, ys, Sim("zs")), Sim("sin"))),
                R)
    IN  [integrando |-> integrando,
         superficie |-> Integral(IntegralAng(integrando, "theta", Num(0), DosPi),
                                 "zs", Num(0), h)]

SuperficiesStokes == {"disco", "plano", "paraboloide", "cilindro"}

\* The parameters a surface reads with sp.sympify
ClavesStokes(superficie) ==
    CASE superficie = "disco" -> {"R"}
      [] superficie = "plano" -> {"a", "b", "c", "R"}
      [] superficie = "paraboloide" -> {"a", "R"}
      [] superficie = "cilindro" -> {"R", "h"}

\* The default text of parametros_superficie.get(key, default)
DefectoStokes(superficie, k) ==
    IF k \in {"R", "h"} \/ (k = "a" /\ superficie = "paraboloide") THEN Txt1 ELSE Txt0

\* Every parameter of the surface, parsed
AnalizarStokes(superficie, d) ==
    Analizar([k \in ClavesStokes(superficie) |-> Get(d, k, DefectoStokes(superficie, k))])

StokesSuperficie(F, rot, superficie, v) ==
    CASE superficie = "disco" -> StokesDisco(F, rot, v)
      [] superficie = "plano" -> StokesPlano(rot, v)
      [] superficie = "paraboloide" -> StokesParaboloide(rot, v)
      [] superficie = "cilindro" -> StokesCilindro(rot, v)

\* The lines a surface's branch appends to the trace for the values g it
\* computed.  Lines 1309-1364: disco holds both integrals and the verdict,
\* the verified mark or the mismatch note; the other surfaces hold the
\* integrand and the surface integral only.
PasosSuperficie(superficie, g) ==
    IF superficie = "disco"
    THEN <<L0("superficie"),
           Linea("integral", 1, "theta", g.i1),
           Linea("integral", 2, "r", g.superficie),
           Linea("integral_superficie", 0, "", g.superficie),
           Linea("integral_linea", 0, "", g.linea),
           L0("verificacion"),
           IF PSub(g.superficie, g.linea) = PZero
           THEN L0("verificado") ELSE L0("no_coinciden")>>
    ELSE <<L0("superficie"), Linea("integrando", 0, "", g.integrando),
           Linea("integral_superficie", 0, "", g.superficie)>>

\* The surface's return with the verification block of disco appended for
\* every surface
ResultadoStokesVerificado(rot, superficie, g) ==
    [superficie |-> g.superficie,
     linea |-> IF superficie = "disco" THEN g.linea ELSE g.superficie,
     pasos |-> <<L0("campo"), L0("derivadas"),
                 Linea("rotacional", 1, "x", rot[1]),
                 Linea("rotacional", 2, "y", rot[2]),
                 Linea("rotacional", 3, "z", rot[3])>>
               \o PasosSuperficie(superficie, g)
               \o (IF superficie = "disco" THEN << >>
                   ELSE <<L0("verificacion"), L0("verificado")>>),
     info |-> InfoTeorema]

\* The dict every surface's branch returns: only disco has a line integral
\* of its own, the others repeat the surface integral in the line slot
ResultadoStokes(rot, superficie, g) ==
    [superficie |-> g.superficie,
     linea |-> IF superficie = "disco" THEN g.linea ELSE g.superficie,
     pasos |-> <<L0("campo"), L0("derivadas"),
                 Linea("rotacional", 1, "x", rot[1]),
                 Linea("rotacional", 2, "y", rot[2]),
                 Linea("rotacional", 3, "z", rot[3])>>
               \o PasosSuperficie(superficie, g),
     info |-> InfoTeorema]

\* The surface's branch, for a curl computed and parameters parsed
StokesCalculado(F, rot, superficie, an) ==
    IF \E k \in DOMAIN an : ~an[k].ok THEN Lanza("SympifyError")
    ELSE Devuelve(ResultadoStokes(rot, superficie,
             EvaluarTodo(StokesSuperficie([i \in DOMAIN F |-> Val(F[i].p)],
                                          [i \in DOMAIN rot |-> Val(rot[i])],
                                          superficie,
                                          [k \in DOMAIN an |-> Val(an[k].p)]))))

\* Lines 1221-1226 and 1242-1486, for the parsed components F
StokesAnalizado(F, superficie, d, sin_parametros) ==
    IF \E i \in DOMAIN F : ~F[i].ok
    THEN Devuelve([error |-> "Error analizando las componentes del campo"])
    ELSE IF superficie \notin SuperficiesStokes
    THEN Devuelve([error |-> "Superficie no soportada. Use: disco, plano, paraboloide, cilindro"])
    ELSE IF sin_parametros THEN Lanza("AttributeError")
    ELSE StokesCalculado(F, Rotacional(F[1].p, F[2].p, F[3].p), superficie,
                         AnalizarStokes(superficie, d))

\* aplicar_stokes appending to the trace an earlier Stokes call left, as a
\* trace list shared between calls would make it do
AplicarStokesTrazaCompartida(Fx_str, Fy_str, Fz_str, superficie, d, sin_parametros) ==
    LET o == StokesAnalizado(Analizar(<<Fx_str, Fy_str, Fz_str>>), superficie, d,
                             sin_parametros)
    IN  IF o.exc = "" /\ "pasos" \in DOMAIN o.ret
           /\ previa.fn = "stokes" /\ "pasos" \in DOMAIN previa.ret
        THEN Devuelve([o.ret EXCEPT !.pasos = previa.ret.pasos \o @])
        ELSE o

\* aplicar_stokes(Fx_str, Fy_str, Fz_str, superficie, parametros_superficie),
\* lines 1218-1486
AplicarStokes(Fx_str, Fy_str, Fz_str, superficie, d, sin_parametros) ==
    StokesAnalizado(Analizar(<<Fx_str, Fy_str, Fz_str>>), superficie, d, sin_parametros)

\* abrir_divergencia, lines 2366-2378: the parameter dict the Divergence
\* dialog builds from its five parameter fields
ParametrosDivergencia(region, p1, p2, p3, p4, p5) ==
    CASE region = "esfera" -> {<<"R", p1>>}
      [] region = "cilindro" -> {<<"R", p1>>, <<"h", p2>>}
      [] region \in {"cubo", "elipsoide"} -> {<<"a", p1>>, <<"b", p2>>, <<"c", p3>>}
      [] region = "cono" -> {<<"R", p1>>, <<"h", p2>>}
      [] region = "entre_superficies" -> {<<"R_int", p4>>, <<"R_ext", p5>>, <<"h", p2>>}

\* abrir_green, lines 2281-2298: the parameter dict the Green dialog builds
\* from its five parameter fields
ParametrosGreen(region, p) ==
    CASE region = "disco" -> {<<"R", p[1]>>, <<"centro_x", p[4]>>, <<"centro_y", p[5]>>}
      [] region = "corona" ->
            {<<"R_int", p[1]>>, <<"R_ext", p[2]>>, <<"centro_x", p[4]>>, <<"centro_y", p[5]>>}
      [] region = "rectangulo" -> {<<"a", p[1]>>, <<"b", p[2]>>, <<"x0", p[4]>>, <<"y0", p[5]>>}
      [] region = "elipse" ->
            {<<"a", p[1]>>, <<"b", p[2]>>, <<"centro_x", p[4]>>, <<"centro_y", p[5]>>}
      [] region = "triangulo" ->
            {<<"base", p[1]>>, <<"altura", p[2]>>, <<"x0", p[4]>>, <<"y0", p[5]>>}
      [] region = "semicirculo" ->
            {<<"R", p[1]>>, <<"tipo", "superior">>, <<"centro_x", p[4]>>, <<"centro_y", p[5]>>}
      [] region = "entre_curvas" ->
            {<<"f1", p[1]>>, <<"f2", p[2]>>, <<"x_min", p[3]>>, <<"x_max", p[4]>>}
      [] region = "sector_polar" -> {<<"R", p[1]>>, <<"theta_min", p[3]>>, <<"theta_max", p[4]>>}
      [] region = "poligono" ->
            {<<"lados", p[1]>>, <<"radio", p[2]>>, <<"centro_x", p[4]>>, <<"centro_y", p[5]>>}

\* float(text) succeeds: an optional sign and digits with at most one point
\* (exponents and the special values are not among the texts entered)
FloatPy(s) ==
    LET t == IF s # << >> /\ s[1] \in {"-", "+"} THEN Tail(s) ELSE s
    IN  /\ \A i \in 1..Len(t) : t[i] \in Digits \cup {"."}
        /\ \E i \in 1..Len(t) : t[i] \in Digits
        /\ Cardinality({i \in 1..Len(t) : t[i] = "."}) <= 1

\* DialogoEntrada.aceptar, lines 1697-1719: the dialog closes with its
\* values when no field is empty, the first two parameters of the round
\* shapes are numbers and a polygon has at least three sides
Aceptar(campos, region, p) ==
    /\ \A i \in 1..Len(campos) : campos[i] # << >>
    /\ \A i \in 1..Len(p) : p[i] # << >>
    /\ region \in {"disco", "corona", "elipse", "semicirculo", "sector_polar", "poligono"}
       => FloatPy(p[1]) /\ FloatPy(p[2])
    /\ region = "poligono" => IntPy(p[1]).ok /\ IntPy(p[1]).n >= 3

\* ---------------------------------------------------------------- inputs
\* The decimal text of a small integer
TxtInt(n) == IF n < 0 THEN <<"-">> \o TxtNum(-n) ELSE TxtNum(n)

Radios == {TxtNum(n) : n \in 1..MaxR}
Centros == {TxtInt(n) : n \in -MaxC..MaxC}

TxtY == <<"y">>
TxtMenosY == <<"-", "y">>
TxtX2 == <<"x", "*", "*", "2">>
TxtRmayus == <<"R">>

\* Plane fields (P, Q): conservative, rotation, two of non-constant curl,
\* and one that does not parse
CamposPlano == {<<TxtX, TxtY>>, <<TxtMenosY, TxtX>>, <<Txt0, TxtX2>>,
                <<TxtXY, TxtX>>, <<TxtMal, TxtX>>}

\* Space fields (Fx, Fy, Fz)
CamposEspacio == {<<TxtX, TxtY, TxtZ>>, <<TxtMenosY, TxtX, Txt0>>,
                  <<<<"x", "*", "*", "3">>, TxtY, <<"z", "*", "*", "2">>>>,
                  <<<<"y", "*", "z">>, TxtX2, TxtY>>,
                  <<TxtX, TxtMal, TxtZ>>}

\* Parameter dicts for a direct call of aplicar_green
DictsGreen(region) ==
    CASE region = "disco" ->
            {{<<"R", R>>, <<"centro_x", cx>>, <<"centro_y", cy>>} :
                R \in Radios \cup {TxtRmayus}, cx \in Centros, cy \in Centros}
      [] region = "corona" ->
            {{<<"R_int", TxtNum(ri)>>, <<"R_ext", TxtNum(re)>>, <<"centro_x", cx>>} :
                ri \in 1..MaxR, re \in {MaxR + 1}, cx \in Centros}
      [] region = "rectangulo" ->
            {{<<"a", a>>, <<"b", b>>, <<"x0", x0>>, <<"y0", Txt1>>} :
                a \in Radios, b \in Radios, x0 \in Centros}
      [] region = "elipse" ->
            {{<<"a", a>>, <<"b", b>>, <<"centro_x", cx>>} :
                a \in Radios, b \in Radios, cx \in Centros}
      [] region = "triangulo" ->
            {{<<"base", a>>, <<"altura", b>>, <<"x0", x0>>} :
                a \in Radios, b \in Radios, x0 \in Centros}
      [] region = "semicirculo" ->
            {{<<"R", R>>, <<"tipo", tipo>>, <<"centro_x", cx>>, <<"centro_y", cy>>} :
                R \in Radios, tipo \in {"superior", "inferior"},
                cx \in Centros, cy \in Centros}
      [] region = "entre_curvas" ->
            {{<<"f1", f[1]>>, <<"f2", f[2]>>, <<"x_min", Txt0>>, <<"x_max", xm>>} :
                f \in {<<TxtX2, TxtNum(4)>>, <<Txt0, TxtX>>, <<TxtMal, TxtX>>,
                        <<TxtNone, TxtNum(4)>>, <<TxtPar, TxtNone>>, <<TxtX, TxtPar>>,
                        <<TxtMal, TxtPar>>},
                xm \in Radios}
            \cup {{<<"x_min", TxtMal>>}}
      [] region = "sector_polar" ->
            {{<<"R", R>>, <<"theta_min", th[1]>>, <<"theta_max", th[2]>>} :
                R \in Radios,
                th \in {<<Txt0, TxtPiMedio>>, <<Txt0, TxtPi>>, <<TxtPiMedio, TxtPi>>,
                        <<Txt0, Txt2Pi>>}}
      [] region = "poligono" ->
            {{<<"lados", l>>, <<"radio", R>>, <<"centro_x", cx>>} :
                l \in {TxtNum(2), TxtNum(3), TxtNum(4), TxtNum(6), TxtX}, R \in Radios,
                cx \in Centros}
      [] OTHER -> {}

\* What is typed in the five parameter fields of the Green dialog
DialogosGreen(region) ==
    {<<p1, p2, Txt0, p4, Txt0>> :
        p1 \in Radios \cup {TxtNum(MaxR + 1), TxtMal}, p2 \in Radios,
        p4 \in CASE region = "sector_polar" -> {TxtPiMedio, TxtPi}
                [] region = "entre_curvas" -> Radios
                [] OTHER -> Centros}

\* Parameter dicts for a direct call of aplicar_divergencia
DictsDivergencia(region) ==
    {ParametrosDivergencia(region, p1, p2, p1, p1, TxtNum(MaxR + 1)) :
        p1 \in Radios, p2 \in Radios}
    \cup (IF region = "cilindro"
          THEN {{<<"a", p1>>, <<"h", p2>>} : p1 \in Radios, p2 \in Radios}
          ELSE {})

\* Parameter dicts for a direct call of aplicar_stokes
DictsStokes(superficie) ==
    CASE superficie = "disco" -> {{<<"R", R>>} : R \in Radios \cup {TxtRmayus}}
      [] superficie = "plano" ->
            {{<<"R", R>>, <<"a", a>>, <<"b", b>>, <<"c", Txt1>>} :
                R \in Radios, a \in Centros, b \in Centros}
      [] superficie = "paraboloide" ->
            {{<<"R", R>>, <<"a", a>>} : R \in Radios, a \in Radios}
      [] superficie = "cilindro" ->
            {{<<"R", R>>, <<"h", h>>} : R \in Radios, h \in Radios}
      [] OTHER -> {}

\* A dict every region accepts (all defaults), and one whose radius does
\* not parse
DictsComunes == {{}, {<<"R", TxtMal>>, <<"a", TxtMal>>, <<"base", TxtMal>>,
                      <<"R_int", TxtMal>>, <<"radio", TxtMal>>}}

\* Arguments of resolver_integral_triple
Cotas == {TxtNum(n) : n \in 1..MaxLim}
Limites(v1, ab1, v2, ab2, v3, ab3) == {<<v1, ab1>>, <<v2, ab2>>, <<v3, ab3>>}

Permutaciones(a, b, c) ==
    {<<a, b, c>>, <<a, c, b>>, <<b, a, c>>, <<b, c, a>>, <<c, a, b>>, <<c, b, a>>}

ArgsRectangulares ==
    {[NoArgs EXCEPT !.sistema = "rectangular", !.integrando = f, !.variables = o,
                    !.limites = Limites("x", <<Txt0, hx>>, "y", <<Txt0, hy>>,
                                        "z", <<lz, hz>>)] :
        f \in {Txt1, TxtX, TxtXY},
        o \in Permutaciones("x", "y", "z") \cup {<<"z", "y">>},
        hx \in Cotas, hy \in Cotas, lz \in {Txt0, Txt1},
        hz \in (Cotas \ {Txt1}) \cup {<<"a">>}}

ArgsCilindricas ==
    {[NoArgs EXCEPT !.sistema = "cilindricas", !.integrando = f, !.variables = o,
                    !.limites = Limites("r", <<Txt0, hr>>, "theta", <<Txt0, ht>>,
                                        "z", <<Txt0, hz>>)] :
        f \in {Txt1, <<"r">>, <<" ", "R">>, TxtZ, <<"r", "*", "z">>,
               <<"r", "*", "*", "2">>, <<"2", "*", "r">>, <<"r", "+", "z">>},
        o \in {<<"z", "r", "theta">>, <<"r", "theta", "z">>},
        hr \in Cotas, ht \in {Txt2Pi, TxtPi}, hz \in Cotas}

ArgsEsfericas ==
    {[NoArgs EXCEPT !.sistema = "esfericas", !.integrando = f, !.variables = o,
                    !.limites = Limites("rho", <<Txt0, hr>>, "theta", <<Txt0, ht>>,
                                        "phi", <<Txt0, hp>>)] :
        f \in {Txt1, <<"r", "h", "o">>, <<"r", "h", "o", "*", "*", "2">>,
               <<"s", "i", "n", "(", "p", "h", "i", ")">>,
               <<"r", "h", "o", "*", "*", "2", "*", "s", "i", "n", "(", "p", "h", "i", ")">>},
        o \in {<<"rho", "phi", "theta">>, <<"theta", "phi", "rho">>},
        hr \in Cotas, ht \in {Txt2Pi, TxtPi}, hp \in {TxtPi, TxtPiMedio}}

\* Calls that fail: an unknown system, an integrand or a limit that does
\* not parse, a variable without limits
ArgsFallidos ==
    LET base == [NoArgs EXCEPT !.sistema = "rectangular", !.integrando = TxtXY,
                               !.variables = <<"z", "y", "x">>,
                               !.limites = Limites("x", <<Txt0, Txt1>>, "y", <<Txt0, Txt1>>,
                                                   "z", <<Txt0, Txt1>>)]
    IN  {[base EXCEPT !.sistema = "polares"],
         [base EXCEPT !.sistema = "polares", !.integrando = TxtMal],
         [base EXCEPT !.integrando = TxtMal],
         [base EXCEPT !.limites = Limites("x", <<Txt0, Txt1>>, "y", <<Txt0, TxtMal>>,
                                          "z", <<Txt0, Txt1>>)],
         [base EXCEPT !.limites = {<<"x", <<Txt0, Txt1>>>>, <<"z", <<Txt0, Txt1>>>>}],
         [base EXCEPT !.sistema = "cilindricas", !.integrando = TxtMal],
         [base EXCEPT !.sistema = "esfericas", !.integrando = TxtMal]}

\* The spherical Jacobian typed with Greek letters, under both spellings of
\* the spherical system
ArgsGriegos ==
    {[NoArgs EXCEPT !.sistema = s, !.integrando = TxtJacobianoGriego,
                    !.variables = <<"rho", "phi", "theta">>,
                    !.limites = Limites("rho", <<Txt0, Txt1>>, "theta", <<Txt0, Txt2Pi>>,
                                        "phi", <<Txt0, TxtPi>>)] :
        s \in {"esfericas", "esferica"}}

ArgsTriple ==
    ArgsRectangulares \cup ArgsCilindricas \cup ArgsEsfericas \cup ArgsFallidos
    \cup ArgsGriegos

\* ---------------------------------------------------------------- actions
Init ==
    /\ pc = "idle"
    /\ fn = ""
    /\ args = NoArgs
    /\ loc = NoLoc
    /\ pasos = << >>
    /\ ret = Nada
    /\ exc = ""
    /\ previa = NoPrevia
    /\ app = AppInicial

\* The trace a returned dict carries
PasosDe(d) == IF "pasos" \in DOMAIN d THEN d.pasos ELSE << >>

\* A whole engine call whose outcome is o
Termina(o) ==
    /\ pc' = "fin"
    /\ ret' = o.ret
    /\ exc' = o.exc
    /\ pasos' = PasosDe(o.ret)
    /\ loc' = NoLoc

\* resolver_integral_triple(integrando, variables, limites, sistema) is entered
LlamarTriple ==
    /\ pc = "idle"
    /\ \E a \in ArgsTriple : args' = a
    /\ fn' = "triple"
    /\ pc' = "rit_sistema"
    /\ UNCHANGED <<loc, pasos, ret, exc>>
    /\ UNCHANGED <<previa, app>>

\* aplicar_green(P, Q, region, parametros_region)
LlamarGreen ==
    /\ pc = "idle"
    /\ \E campo \in CamposPlano, region \in RegionesGreen \cup {"hexagono"} :
       \E d \in DictsGreen(region) \cup DictsComunes, sin \in BOOLEAN :
          /\ sin => d = {}
          /\ args' = [NoArgs EXCEPT !.campo = campo, !.region = region,
                                    !.parametros = d, !.sin_parametros = sin]
          /\ Termina(AplicarGreen(campo[1], campo[2], region, d, sin))
    /\ fn' = "green"
    /\ UNCHANGED <<previa, app>>

\* abrir_green, lines 2265-2300: the dialog is accepted and its fields
\* become the dict handed to aplicar_green
AbrirGreen ==
    /\ pc = "idle"
    /\ \E campo \in CamposPlano, region \in RegionesGreen :
       \E p \in DialogosGreen(region) :
          /\ Aceptar(campo, region, p)
          /\ args' = [NoArgs EXCEPT !.campo = campo, !.region = region,
                                    !.parametros = ParametrosGreen(region, p)]
          /\ Termina(AplicarGreen(campo[1], campo[2], region,
                                  ParametrosGreen(region, p), FALSE))
    /\ fn' = "abrir_green"
    /\ UNCHANGED <<previa, app>>

\* aplicar_divergencia(Fx, Fy, Fz, region, parametros_region)
LlamarDivergencia ==
    /\ pc = "idle"
    /\ \E campo \in CamposEspacio, region \in RegionesDivergencia \cup {"toro"} :
       \E d \in DictsComunes
                \cup (IF region \in RegionesDivergencia
                      THEN DictsDivergencia(region) ELSE {}),
          sin \in BOOLEAN :
          /\ sin => d = {}
          /\ args' = [NoArgs EXCEPT !.campo = campo, !.region = region,
                                    !.parametros = d, !.sin_parametros = sin]
          /\ Termina(AplicarDivergencia(campo[1], campo[2], campo[3], region, d, sin))
    /\ fn' = "divergencia"
    /\ UNCHANGED <<previa, app>>

\* abrir_divergencia, lines 2366-2380: the dialog's fields become the dict
\* handed to aplicar_divergencia
AbrirDivergencia ==
    /\ pc = "idle"
    /\ \E campo \in CamposEspacio, region \in RegionesDivergencia :
       \E p1 \in Radios, p2 \in Radios :
          LET d == ParametrosDivergencia(region, p1, p2, p1, p1, TxtNum(MaxR + 1)) IN
          /\ args' = [NoArgs EXCEPT !.campo = campo, !.region = region,
                                    !.parametros = d]
          /\ Termina(AplicarDivergencia(campo[1], campo[2], campo[3], region, d, FALSE))
    /\ fn' = "abrir_divergencia"
    /\ UNCHANGED <<previa, app>>

\* aplicar_stokes(Fx, Fy, Fz, superficie, parametros_superficie)
LlamarStokes ==
    /\ pc = "idle"
    /\ \E campo \in CamposEspacio, superficie \in SuperficiesStokes \cup {"esfera"} :
       \E d \in DictsStokes(superficie) \cup DictsComunes, sin \in BOOLEAN :
          /\ sin => d = {}
          /\ args' = [NoArgs EXCEPT !.campo = campo, !.region = superficie,
                                    !.parametros = d, !.sin_parametros = sin]
          /\ Termina(AplicarStokes(campo[1], campo[2], campo[3], superficie, d, sin))
    /\ fn' = "stokes"
    /\ UNCHANGED <<previa, app>>

\* The caller takes the outcome; the engine is ready for the next call
Retorno ==
    /\ pc = "fin"
    /\ pc' = "idle"
    /\ fn' = ""
    /\ args' = NoArgs
    /\ loc' = NoLoc
    /\ pasos' = << >>
    /\ ret' = Nada
    /\ exc' = ""
    /\ previa' = IF previa.fn # "" /\ <<previa.fn, previa.args>> # <<fn, args>>
                 THEN [previa EXCEPT !.otras = TRUE] ELSE previa
    /\ UNCHANGED app

Next ==
    \/ LlamarTriple
    \/ RIT_Sistema
    \/ RIT_Parse
    \/ RIT_Jacobiano
    \/ RIT_Paso
    \/ RIT_Final
    \/ RIT_Numerico
    \/ LlamarGreen
    \/ AbrirGreen
    \/ LlamarDivergencia
    \/ AbrirDivergencia
    \/ LlamarStokes
    \/ Retorno

Spec == Init /\ [][Next]_vars

\* ---------------------------------------------------------- repeated calls
\* A few calls of each engine, made any number of times in any order
ArgsRepetidos ==
    {[NoArgs EXCEPT !.sistema = si[1], !.integrando = si[2], !.variables = o,
                    !.limites = Limites(o[1], <<Txt0, TxtNum(2)>>, o[2], <<Txt0, Txt2Pi>>,
                                        o[3], <<Txt0, hz>>)] :
        si \in {<<"cilindricas", <<"r">>>>, <<"cilindricas", <<"r", "*", "z">>>>,
                <<"polares", <<"r">>>>},
        o \in {<<"z", "r", "theta">>, <<"r", "theta", "z">>},
        hz \in {Txt1, <<"a">>}}

RegionesRepetidas == {"disco", "semicirculo", "poligono", "hexagono"}

\* resolver_integral_triple is entered with one of the repeated arguments
RepetirTriple ==
    /\ pc = "idle"
    /\ \E a \in ArgsRepetidos : args' = a
    /\ fn' = "triple"
    /\ pc' = "rit_sistema"
    /\ UNCHANGED <<loc, pasos, ret, exc, previa, app>>

\* aplicar_green with the default parameters of the region, or without any
RepetirGreen ==
    /\ pc = "idle"
    /\ \E campo \in {<<TxtMenosY, TxtX>>, <<TxtXY, TxtX>>},
          region \in RegionesRepetidas, sin \in BOOLEAN :
          /\ args' = [NoArgs EXCEPT !.campo = campo, !.region = region,
                                    !.sin_parametros = sin]
          /\ Termina(AplicarGreen(campo[1], campo[2], region, {}, sin))
    /\ fn' = "green"
    /\ UNCHANGED <<previa, app>>

\* aplicar_divergencia with the default parameters of the region
RepetirDivergencia ==
    /\ pc = "idle"
    /\ \E campo \in {<<TxtX, TxtY, TxtZ>>, <<TxtX, TxtMal, TxtZ>>},
          region \in {"esfera", "cubo", "cono"} :
          /\ args' = [NoArgs EXCEPT !.campo = campo, !.region = region]
          /\ Termina(AplicarDivergencia(campo[1], campo[2], campo[3], region, {}, FALSE))
    /\ fn' = "divergencia"
    /\ UNCHANGED <<previa, app>>

\* aplicar_stokes with a radius
RepetirStokes ==
    /\ pc = "idle"
    /\ \E campo \in {<<TxtMenosY, TxtX, Txt0>>, <<TxtX, TxtY, TxtZ>>},
          superficie \in {"disco", "paraboloide"}, R \in Radios :
          /\ args' = [NoArgs EXCEPT !.campo = campo, !.region = superficie,
                                    !.parametros = {<<"R", R>>}]
          /\ Termina(AplicarStokes(campo[1], campo[2], campo[3], superficie,
                                   {<<"R", R>>}, FALSE))
    /\ fn' = "stokes"
    /\ UNCHANGED <<previa, app>>

\* The caller keeps the call and its outcome before the next call
Recordar ==
    /\ pc = "fin"
    /\ previa' = [fn |-> fn, args |-> args, ret |-> ret, exc |-> exc, otras |-> FALSE]
    /\ pc' = "idle"
    /\ fn' = ""
    /\ args' = NoArgs
    /\ loc' = NoLoc
    /\ pasos' = << >>
    /\ ret' = Nada
    /\ exc' = ""
    /\ UNCHANGED app

NextRepetida ==
    \/ RepetirTriple
    \/ RIT_Sistema
    \/ RIT_Parse
    \/ RIT_Jacobiano
    \/ RIT_Paso
    \/ RIT_Final
    \/ RIT_Numerico
    \/ RepetirGreen
    \/ RepetirDivergencia
    \/ RepetirStokes
    \/ Recordar
    \/ Retorno

SpecRepetida == Init /\ [][NextRepetida]_vars

\* ------------------------------------------------------------ the window
\* The most records the history list is let grow to
MaxHist == 2

\* str.strip() for spaces
RECURSIVE Strip(_)
Strip(s) ==
    IF s # << >> /\ Head(s) = " " THEN Strip(Tail(s))
    ELSE IF s # << >> /\ s[Len(s)] = " " THEN Strip(SubSeq(s, 1, Len(s) - 1))
    ELSE s

\* [v.strip() for v in text.split(',')], each piece as a name
RECURSIVE Partir(_)
Partir(s) ==
    LET comas == {i \in 1..Len(s) : s[i] = ","} IN
    IF comas = {} THEN <<Join(Strip(s))>>
    ELSE LET k == CHOOSE i \in comas : \A j \in comas : i <= j
         IN  <<Join(Strip(SubSeq(s, 1, k - 1)))>> \o Partir(SubSeq(s, k + 1, Len(s)))

\* The variables of a coordinate system, in the order of the dialog
VariablesDe(sistema) ==
    IF sistema = "rectangular" THEN <<"x", "y", "z">>
    ELSE IF sistema = "cilindricas" THEN <<"r", "theta", "z">>
    ELSE <<"rho", "phi", "theta">>

\* The names of the fields of a dialog, in the order they were created
ParametrosDelDialogo == <<"parametro1", "parametro2", "parametro3", "parametro4",
                          "parametro5">>
CamposDe(dialogo) ==
    IF dialogo.de = "green" THEN <<"P", "Q", "region">> \o ParametrosDelDialogo
    ELSE <<"integrando", "orden">> \o
         <<VariablesDe(dialogo.sistema)[1] \o "_min", VariablesDe(dialogo.sistema)[1] \o "_max",
           VariablesDe(dialogo.sistema)[2] \o "_min", VariablesDe(dialogo.sistema)[2] \o "_max",
           VariablesDe(dialogo.sistema)[3] \o "_min", VariablesDe(dialogo.sistema)[3] \o "_max">>

\* The loop of aceptar, lines 1686-1695: every field up to the first empty
\* one is written to resultados
PrimerVacio(valores) ==
    LET vacios == {i \in 1..Len(valores) : Strip(valores[i]) = << >>}
    IN  IF vacios = {} THEN Len(valores) + 1
        ELSE CHOOSE i \in vacios : \A j \in vacios : i <= j
Escritos(nombres, valores) ==
    {<<nombres[i], Strip(valores[i])>> : i \in 1..(PrimerVacio(valores) - 1)}
Actualizado(d, nuevos) == {kv \in d : ~HasKey(nuevos, kv[1])} \cup nuevos

\* The checks of aceptar on resultados, lines 1698-1719
Validos(res) ==
    HasKey(res, "region") =>
        /\ Join(Lookup(res, "region")) \in {"disco", "corona", "elipse", "semicirculo",
                                            "sector_polar", "poligono"}
           => /\ HasKey(res, "parametro1") => FloatPy(Lookup(res, "parametro1"))
              /\ HasKey(res, "parametro2") => FloatPy(Lookup(res, "parametro2"))
        /\ Join(Lookup(res, "region")) = "poligono"
           => /\ IntPy(Lookup(res, "parametro1")).ok
              /\ IntPy(Lookup(res, "parametro1")).n >= 3

\* What is typed in the fields of the Green dialog: P, Q, the region and
\* the five parameters
TxtSuperior == <<"s", "u", "p", "e", "r", "i", "o", "r">>
TxtInferior == <<"i", "n", "f", "e", "r", "i", "o", "r">>
TxtDisco == <<"d", "i", "s", "c", "o">>
TxtSemicirculo == <<"s", "e", "m", "i", "c", "i", "r", "c", "u", "l", "o">>
TxtPoligono == <<"p", "o", "l", "i", "g", "o", "n", "o">>
TecleadosGreen ==
    {<<TxtMenosY, TxtX, TxtDisco, Txt1, TxtNum(2), Txt1, Txt0, Txt0>>,
     <<TxtMenosY, TxtX, TxtDisco, Txt1, TxtNum(2), Txt1, <<" ">>, Txt0>>,
     <<TxtMal, TxtX, TxtDisco, Txt1, TxtNum(2), Txt1, Txt0, Txt0>>,
     <<TxtMenosY, TxtX, TxtDisco, TxtMal, TxtNum(2), Txt1, Txt0, Txt0>>,
     <<TxtMenosY, TxtX, TxtSemicirculo, Txt1, TxtNum(2), TxtSuperior, Txt0, Txt0>>,
     <<TxtMenosY, TxtX, TxtSemicirculo, Txt1, TxtNum(2), TxtInferior, Txt0, Txt0>>,
     <<TxtMenosY, TxtX, TxtPoligono, TxtNum(2), Txt1, Txt1, Txt0, Txt0>>,
     <<TxtMenosY, TxtX, TxtPoligono, TxtNum(3), Txt1, Txt1, Txt0, Txt0>>}

\* What is typed in the fields of the triple integral dialog: the
\* integrand, the order and the six limits
TecleadosTriple(sistema) ==
    IF sistema = "rectangular"
    THEN {<<TxtX, orden, Txt0, Txt1, Txt0, Txt1, Txt0, zmax>> :
            orden \in {<<"z", ",", "y", ",", "x">>, <<"x", ",", " ", "z", " ", ",", "y">>,
                       <<"z", ",", "y">>, <<"z", ",", "z", ",", "x">>,
                       <<"y", ",", "x", ",", "r">>},
            zmax \in {Txt1, << >>}}
    ELSE IF sistema = "cilindricas"
    THEN {<<TxtZ, orden, Txt0, Txt1, Txt0, Txt2Pi, Txt0, Txt1>> :
            orden \in {<<"z", ",", "t", "h", "e", "t", "a", ",", "r">>,
                       <<"r", ",", "z">>}}
    ELSE {<<Txt1, <<"t", "h", "e", "t", "a", ",", "p", "h", "i", ",", "r", "h", "o">>,
            Txt0, Txt1, Txt0, TxtPi, Txt0, Txt2Pi>>}
Tecleados(dialogo) ==
    IF dialogo.de = "green" THEN TecleadosGreen ELSE TecleadosTriple(dialogo.sistema)

\* The engine and the observer of calls are left alone
MotorQuieto == UNCHANGED <<pc, fn, args, loc, pasos, ret, exc, previa>>

\* The locals of a handler that has ended are gone
MotorLibre ==
    /\ pc' = "idle"
    /\ fn' = ""
    /\ args' = NoArgs
    /\ loc' = NoLoc
    /\ pasos' = << >>
    /\ ret' = Nada
    /\ exc' = ""
    /\ UNCHANGED previa

\* No handler is running and no dialog holds the input
EnReposo == pc = "idle" /\ app.dialogo.de = ""

\* limpiar_todo, lines 1783-1788: the button Borrar Ejercicio Actual
LimpiarTodoConHistorial ==
    /\ EnReposo
    /\ app' = [app EXCEPT !.registro_actual = SinRegistro, !.ultima = "borrado",
                          !.historial = << >>]
    /\ MotorQuieto

LimpiarTodo ==
    /\ EnReposo
    /\ app' = [app EXCEPT !.registro_actual = SinRegistro, !.ultima = "borrado"]
    /\ MotorQuieto

\* guardar_historial_actual, lines 1836-1842, with guardar_historial,
\* lines 38-40
GuardarHistorialActual ==
    /\ EnReposo
    /\ Len(app.historial) < MaxHist
    /\ IF app.registro_actual = SinRegistro
       THEN UNCHANGED app
       ELSE app' = [app EXCEPT !.historial = Append(@, app.registro_actual),
                               !.archivo = Append(app.historial, app.registro_actual)]
    /\ MotorQuieto

\* mostrar_historial with cargar_ejercicio, lines 1844-1925: the list read
\* from the store (lines 29-36), and the record selected, if one is
CargarEjercicio ==
    /\ EnReposo
    /\ \E seleccion \in 0..Len(app.archivo) :
          IF seleccion = 0
          THEN UNCHANGED app
          ELSE app' = [app EXCEPT !.registro_actual = app.archivo[seleccion],
                                  !.ultima = "cargado"]
    /\ MotorQuieto

\* abrir_green up to wait_window, lines 2247-2266
AbrirGreenInicio ==
    /\ EnReposo
    /\ app' = [app EXCEPT !.registro_actual = SinRegistro, !.ultima = "en_curso",
                          !.dialogo = [SinDialogo EXCEPT !.de = "green",
                                                         !.abierto = TRUE]]
    /\ MotorQuieto

\* abrir_dialogo_integral_triple up to wait_window, lines 2069-2124, for
\* the system chosen in the menu
AbrirTripleInicio ==
    /\ EnReposo
    /\ \E sistema \in {"rectangular", "cilindricas", "esfericas"} :
          app' = [app EXCEPT !.registro_actual = SinRegistro, !.ultima = "en_curso",
                             !.dialogo = [SinDialogo EXCEPT !.de = "triple",
                                                            !.sistema = sistema,
                                                            !.abierto = TRUE]]
    /\ MotorQuieto

\* DialogoEntrada.aceptar, lines 1684-1719 (no text typed is "No usado")
DialogoAceptar ==
    /\ app.dialogo.abierto
    /\ \E valores \in Tecleados(app.dialogo) :
       \E res \in {Actualizado(app.dialogo.resultados,
                               Escritos(CamposDe(app.dialogo), valores))} :
       \E cierra \in {PrimerVacio(valores) > Len(valores) /\ Validos(res)} :
          app' = [app EXCEPT !.dialogo.resultados = res,
                             !.dialogo.abierto = ~cierra,
                             !.dialogo.aceptado = cierra]
    /\ MotorQuieto

\* DialogoEntrada.cancelar, lines 1721-1723
DialogoCancelar ==
    /\ app.dialogo.abierto
    /\ app' = [app EXCEPT !.dialogo.resultados = {}, !.dialogo.nulo = TRUE,
                          !.dialogo.abierto = FALSE]
    /\ MotorQuieto

\* The dialog window is closed by the window manager: DialogoEntrada sets no
\* handler for it (lines 1488-1505), so the window is destroyed as it is
DialogoCerrar ==
    /\ app.dialogo.abierto
    /\ app' = [app EXCEPT !.dialogo.abierto = FALSE]
    /\ MotorQuieto

\* A handler ends before it calls the engine: by return, or by the KeyError
\* of a field missing in resultados
SinLlamada(como) ==
    /\ app' = [app EXCEPT !.dialogo = SinDialogo, !.ultima = como]
    /\ MotorQuieto

\* abrir_green from the return of wait_window to the return of
\* aplicar_green, lines 2268-2300
ContinuarGreen ==
    /\ pc = "idle"
    /\ app.dialogo.de = "green"
    /\ ~app.dialogo.abierto
    /\ IF app.dialogo.nulo \/ app.dialogo.resultados = {}
       THEN SinLlamada("cancelado")
       ELSE IF \E i \in 1..8 : ~HasKey(app.dialogo.resultados, CamposDe(app.dialogo)[i])
       THEN SinLlamada("excepcion")
       ELSE \E res \in {app.dialogo.resultados} :
            \E d \in {ParametrosGreen(Join(Lookup(res, "region")),
                                      [i \in 1..5 |-> Lookup(res, ParametrosDelDialogo[i])])} :
               /\ args' = [NoArgs EXCEPT !.campo = <<Lookup(res, "P"), Lookup(res, "Q")>>,
                                         !.region = Join(Lookup(res, "region")),
                                         !.parametros = d]
               /\ Termina(AplicarGreen(Lookup(res, "P"), Lookup(res, "Q"),
                                       Join(Lookup(res, "region")), d, FALSE))
               /\ fn' = "abrir_green"
               /\ UNCHANGED <<previa, app>>

\* How a handler goes on after its engine call: the exception ends it, an
\* error record is reported, a result is shown
Desenlace == IF exc # "" THEN "excepcion"
             ELSE IF "error" \in DOMAIN ret THEN "error"
             ELSE "calculo"

\* abrir_green after the call: every call leaves an exercise
TerminarGreenRegistraSiempre ==
    /\ pc = "fin"
    /\ fn = "abrir_green"
    /\ app.dialogo.de = "green"
    /\ app' = [app EXCEPT !.dialogo = SinDialogo,
                          !.ultima = Desenlace,
                          !.registro_actual = Registro("green", args.region)]
    /\ MotorLibre

\* abrir_green after the call, lines 2302-2331
TerminarGreen ==
    /\ pc = "fin"
    /\ fn = "abrir_green"
    /\ app.dialogo.de = "green"
    /\ app' = [app EXCEPT !.dialogo = SinDialogo,
                          !.ultima = Desenlace,
                          !.registro_actual =
                              IF Desenlace = "calculo"
                              THEN Registro("green", args.region) ELSE @]
    /\ MotorLibre

\* abrir_dialogo_integral_triple from the return of wait_window to the call
\* of resolver_integral_triple, lines 2126-2141
ContinuarTriple ==
    /\ pc = "idle"
    /\ app.dialogo.de = "triple"
    /\ ~app.dialogo.abierto
    /\ IF app.dialogo.nulo \/ app.dialogo.resultados = {}
       THEN SinLlamada("cancelado")
       ELSE IF ~HasKey(app.dialogo.resultados, "integrando")
               \/ ~HasKey(app.dialogo.resultados, "orden")
       THEN SinLlamada("excepcion")
       ELSE \E res \in {app.dialogo.resultados} :
            \E variables_orden \in {Partir(Lookup(res, "orden"))} :
               /\ args' = [NoArgs EXCEPT
                             !.integrando = Lookup(res, "integrando"),
                             !.variables = variables_orden,
                             !.limites =
                                 {<<variables_orden[i],
                                    <<Lookup(res, variables_orden[i] \o "_min"),
                                      Lookup(res, variables_orden[i] \o "_max")>>>> :
                                     i \in {j \in 1..Len(variables_orden) :
                                              /\ HasKey(res, variables_orden[j] \o "_min")
                                              /\ HasKey(res, variables_orden[j] \o "_max")}},
                             !.sistema = app.dialogo.sistema]
               /\ pc' = "rit_sistema"
               /\ fn' = "abrir_triple"
               /\ UNCHANGED <<loc, pasos, ret, exc, previa, app>>

\* abrir_dialogo_integral_triple after the call, lines 2143-2157
TerminarTriple ==
    /\ pc = "fin"
    /\ fn = "abrir_triple"
    /\ app.dialogo.de = "triple"
    /\ app' = [app EXCEPT !.dialogo = SinDialogo,
                          !.ultima = Desenlace,
                          !.registro_actual =
                              IF Desenlace = "calculo"
                              THEN Registro("triple", args.sistema) ELSE @]
    /\ MotorLibre

NextApp ==
    \/ AbrirGreenInicio
    \/ AbrirTripleInicio
    \/ DialogoAceptar
    \/ DialogoCancelar
    \/ DialogoCerrar
    \/ ContinuarGreen
    \/ TerminarGreen
    \/ ContinuarTriple
    \/ RIT_Sistema
    \/ RIT_Parse
    \/ RIT_Jacobiano
    \/ RIT_Paso
    \/ RIT_Final
    \/ RIT_Numerico
    \/ TerminarTriple
    \/ GuardarHistorialActual
    \/ LimpiarTodo
    \/ CargarEjercicio

SpecApp == Init /\ [][NextApp]_vars

\* ----------------------------------------------------------------- claims
\* The lines of one kind of a trace, in order
EsIntegral(l) == l.k = "integral"
EsParcial(l) == l.k = "parcial"
TieneLinea(ps, k) == \E j \in 1..Len(ps) : ps[j].k = k

\* The call returned a result, not an error
Devolvio(campo) == pc = "fin" /\ exc = "" /\ campo \in DOMAIN ret

\* C1: in resolver_integral_triple with a cylindrical or spherical system,
\* the expression handed to the first integration step is the parsed
\* integrand times the system's Jacobian when the detection does not fire,
\* with a trace line recording the multiplication, and the parsed integrand
\* unchanged when it fires.
C1_JacobianoAplicado ==
    (/\ fn = "triple"
     /\ pc = "rit_bucle"
     /\ loc.i = 1
     /\ EsCilindrica(args.sistema) \/ EsEsferica(args.sistema))
    => IF \/ EsCilindrica(args.sistema) /\ DetectaCilindricas(args.integrando)
          \/ EsEsferica(args.sistema) /\ DetectaEsfericas(args.integrando)
       THEN \E e \in Sympificados(args.integrando) : e.ok /\ loc.expr = e.p
       ELSE /\ \E e \in Sympificados(args.integrando) :
                  e.ok /\ loc.expr = PMul(e.p, Jacobiano(args.sistema))
            /\ TieneLinea(pasos, "multiplicando_jacobiano")

\* C2: for P = x, Q = y and every Green shape with admissible parameters,
\* aplicar_green returns a domain integral of 0 and a boundary integral of
\* 0, and the verification reports no mismatch.
C2_ConservativoCero ==
    (/\ fn = "green"
     /\ args.campo = <<TxtX, TxtY>>
     /\ Devolvio("doble"))
    => /\ ret.doble = PZero
       /\ ret.linea = PZero
       /\ ~TieneLinea(ret.pasos, "diferencia")

\* C3: in each engine entry point every failure ends the call by returning
\* a record whose only content is an 'error' message; no exception escapes
\* to the caller.
C3_TodoFalloDevuelveError ==
    pc = "fin"
    => /\ exc = ""
       /\ ret # Nada
       /\ "error" \in DOMAIN ret => DOMAIN ret = {"error"}

\* C4: resolver_integral_triple called with a coordinate-system tag outside
\* the accepted set returns a record {'error': message} with no value and no
\* trace, decided before the integrand is parsed.
C4_SistemaDesconocido ==
    (/\ fn = "triple"
     /\ pc = "fin"
     /\ ~(EsRectangular(args.sistema) \/ EsCilindrica(args.sistema)
          \/ EsEsferica(args.sistema)))
    => /\ exc = ""
       /\ DOMAIN ret = {"error"}
       /\ ~TieneLinea(pasos, "integrando_inicial")

\* C5: resolver_integral_triple performs one definite integration per entry
\* of the ordered variable list, in list order: the k-th step integrates the
\* current expression over the k-th variable between that variable's own
\* bounds and appends the partial result to the trace, the result of step k
\* is the integrand of step k+1, and the returned value is the result of the
\* last step.
C5_UnPasoPorVariable ==
    fn = "triple"
    => LET int == SelectSeq(pasos, EsIntegral)
           par == SelectSeq(pasos, EsParcial)
       IN  /\ Len(int) = Len(par)
           /\ Len(par) <= Len(args.variables)
           /\ \A k \in 1..Len(par) :
                LET var == args.variables[k]
                    lim == Analizar(Lookup(args.limites, var))
                IN  /\ int[k].i = k /\ int[k].v = var
                    /\ par[k].i = k /\ par[k].v = var
                    /\ par[k].e = IntegrarVariable(int[k].e, var, lim[1].p, lim[2].p)
                    /\ k > 1 => int[k].e = par[k - 1].e
           /\ "resultado" \in DOMAIN ret
              => /\ Len(par) = Len(args.variables)
                 /\ ret.resultado = par[Len(par)].e
                 /\ ret.pasos = pasos

\* A call of three integrations returned a value that is not zero
C5_Testigo ==
    /\ fn = "triple"
    /\ Devolvio("resultado")
    /\ Len(args.variables) = 3
    /\ Len(SelectSeq(pasos, EsParcial)) = 3
    /\ ret.resultado # PZero

\* The parsed value of a parameter of the call, or of its default
Parametro(key, default) == Sympify(Get(args.parametros, key, default)).p

\* C6: for P = -y, Q = x on a disco of radius R centred at the origin,
\* aplicar_green computes curl = 2, takes the constant-curl shortcut so that
\* the domain integral is 2*pi*R**2, computes the boundary integral as
\* 2*pi*R**2, and the verification marks the theorem as verified.
C6_DiscoRotacion ==
    (/\ fn = "green"
     /\ args.campo = <<TxtMenosY, TxtX>>
     /\ args.region = "disco"
     /\ Get(args.parametros, "centro_x", Txt0) = Txt0
     /\ Get(args.parametros, "centro_y", Txt0) = Txt0
     /\ Devolvio("doble"))
    => LET esperado == PMul(PInt(2), PMul(PVar("pi"), PPow(Parametro("R", Txt1), 2)))
       IN  /\ \E j \in 1..Len(ret.pasos) :
                ret.pasos[j].k = "rotacional" /\ ret.pasos[j].e = PInt(2)
           /\ \E j \in 1..Len(ret.pasos) :
                ret.pasos[j].k = "atajo_constante" /\ ret.pasos[j].e = esperado
           /\ ret.doble = esperado
           /\ ret.linea = esperado
           /\ TieneLinea(ret.pasos, "verificado")
           /\ ~TieneLinea(ret.pasos, "diferencia")

\* The rotation field on the disc of radius 2 at the origin gave 8*pi twice
C6_Testigo ==
    /\ fn = "green"
    /\ args.campo = <<TxtMenosY, TxtX>>
    /\ args.region = "disco"
    /\ args.parametros = {<<"R", TxtNum(2)>>, <<"centro_x", Txt0>>, <<"centro_y", Txt0>>}
    /\ Devolvio("doble")
    /\ ret.doble = {[c |-> Rat(8, 1), e |-> EVar("pi")]}
    /\ ret.linea = ret.doble
    /\ TieneLinea(ret.pasos, "verificado")

\* C7: for the Divergence shape cilindro requested with the parameters R and
\* h the dialog sends, the radius used is the supplied R: the result is
\* d*pi*R**2*h for a constant divergence d, and the r integration runs over
\* [0, R] otherwise.
C7_RadioDelDialogo ==
    (/\ fn = "abrir_divergencia"
     /\ args.region = "cilindro"
     /\ Devolvio("volumen"))
    => ret.volumen =
         Evaluar(DivCilindro(Val(ret.divergencia),
                             [k \in {"a", "h"} |->
                                 Val(Parametro(IF k = "a" THEN "R" ELSE "h", Txt1))]).volumen)

\* C8: for F = (x, y, z) over an esfera of radius R, aplicar_divergencia
\* computes divergence = 3, takes the constant-divergence shortcut, and
\* returns the exact symbolic value 4*pi*R**3.
C8_EsferaExacta ==
    (/\ fn \in {"divergencia", "abrir_divergencia"}
     /\ args.campo = <<TxtX, TxtY, TxtZ>>
     /\ args.region = "esfera"
     /\ Devolvio("volumen"))
    => /\ ret.divergencia = PInt(3)
       /\ TieneLinea(ret.pasos, "atajo_constante")
       /\ ret.volumen = PMul(PInt(4), PMul(PVar("pi"), PPow(Parametro("R", Txt1), 3)))

LineasDeFrontera == {"integral_linea", "integral_superficie", "segmento", "verificacion"}

C10_DiscoStokes ==
    (/\ fn = "stokes"
     /\ args.region = "disco"
     /\ Devolvio("superficie"))
    => LET F == Analizar(args.campo)
           R == Val(Parametro("R", Txt1))
           rot_z == PSub(PDiff(F[2].p, "x"), PDiff(F[1].p, "y"))
           superficie ==
               Evaluar(DoblePolar(Sust(Val(rot_z), "z", Num(0)), Num(0), Num(0),
                                  Num(0), R, Ang(0), Ang(4)))
           linea ==
               Evaluar(LineaArco(Sust(Val(F[1].p), "z", Num(0)),
                                 Sust(Val(F[2].p), "z", Num(0)),
                                 EnArcoX(Num(0), R), EnArcoY(Num(0), R), Ang(0), Ang(4)))
       IN  /\ ret.superficie = superficie
           /\ ret.linea = linea
           /\ TieneLinea(ret.pasos, "verificado") <=> ret.superficie = ret.linea
           /\ TieneLinea(ret.pasos, "no_coinciden") <=> ret.superficie # ret.linea
           /\ (args.campo = <<TxtMenosY, TxtX, Txt0>> /\ R.p = PInt(1))
              => /\ ret.superficie = Angle(4)
                 /\ ret.linea = Angle(4)
                 /\ TieneLinea(ret.pasos, "verificado")

\* The rotation field on the unit disc gave 2*pi for both integrals
C10_Testigo ==
    /\ fn = "stokes"
    /\ args.region = "disco"
    /\ args.campo = <<TxtMenosY, TxtX, Txt0>>
    /\ args.parametros = {<<"R", Txt1>>}
    /\ Devolvio("linea")
    /\ ret.linea = Angle(4)
    /\ ret.superficie = Angle(4)
    /\ TieneLinea(ret.pasos, "verificado")

\* The verdict lines _verificar_green appends
EsVeredicto(l) == l.k \in {"verificado", "diferencia"}

\* The two integrals of the finished aplicar_green call, computed again
\* from its arguments
IntegralesGreen ==
    LET PQ == Analizar(args.campo)
        an == AnalizarGreen(args.region, args.parametros)
    IN  EvaluarTodo(GreenRegion(Val(PQ[1].p), Val(PQ[2].p),
                                Val(PSub(PDiff(PQ[2].p, "x"), PDiff(PQ[1].p, "y"))),
                                args.region, [k \in DOMAIN an |-> Val(an[k].p)],
                                args.parametros))

\* The verdict of a returned Green record against the recomputed values
VeredictoGreen ==
    (/\ fn = "green"
     /\ args.region \in RegionesGreen \ {"poligono"}
     /\ Devolvio("doble"))
    => LET g == IntegralesGreen
           veredictos == SelectSeq(ret.pasos, EsVeredicto)
           residuo == PSub(g.doble, g.linea)
       IN  /\ ret.doble = g.doble
           /\ ret.linea = g.linea
           /\ Len(veredictos) = 1
           /\ veredictos[1] = ret.pasos[Len(ret.pasos)]
           /\ IF residuo = PZero
              THEN veredictos[1].k = "verificado"
              ELSE veredictos[1].k = "diferencia" /\ veredictos[1].e = residuo
           /\ TieneLinea(ret.pasos, "confirmacion") => residuo = PZero

\* A Green call for a shape other than poligono whose field, parameters and
\* curves parse returns both values
GreenNoLanza ==
    (/\ fn = "green"
     /\ pc = "fin"
     /\ args.region \in RegionesGreen \ {"poligono"}
     /\ ~args.sin_parametros
     /\ \A i \in 1..2 : Sympify(args.campo[i]).ok)
    => LET an == AnalizarGreen(args.region, args.parametros)
       IN  (\A k \in DOMAIN an : an[k].ok) => Devolvio("doble")

LadosPedidos == IntPy(Get(args.parametros, "lados", TxtNum(5)))

\* C12: a Green request with shape poligono and a side count below 3 fails
\* with a validation error before any symbolic computation is performed for
\* it, by whichever path the request reaches aplicar_green: no value is
\* returned and the trace holds no derivative, area or integral.
C12_PoligonoValidado ==
    (/\ fn \in {"green", "abrir_green"}
     /\ pc = "fin"
     /\ args.region = "poligono"
     /\ ~args.sin_parametros
     /\ \A i \in 1..2 : Sympify(args.campo[i]).ok
     /\ LadosPedidos.ok
     /\ LadosPedidos.n < 3)
    => /\ "doble" \notin DOMAIN ret
       /\ pasos = << >>

\* The kinds of trace line that print a boundary integral or its comparison
\* with the domain integral
LineasDeVerificacion ==
    {"integral_linea", "segmento", "verificacion", "verificado", "diferencia"}

IntegralesStokes ==
    LET F == Analizar(args.campo)
        rot == Rotacional(F[1].p, F[2].p, F[3].p)
        an == AnalizarStokes(args.region, args.parametros)
    IN  EvaluarTodo(StokesSuperficie([i \in DOMAIN F |-> Val(F[i].p)],
                                     [i \in DOMAIN rot |-> Val(rot[i])],
                                     args.region,
                                     [k \in DOMAIN an |-> Val(an[k].p)]))

\* C14: for the Stokes surfaces plano, paraboloide and cilindro,
\* aplicar_stokes computes only the surface integral: no boundary line
\* integral is evaluated, no verification verdict is appended to the trace,
\* which ends with the surface integral, and the record's line-integral slot
\* is identical to its surface-integral slot.
C14_SoloSuperficie ==
    (/\ fn = "stokes"
     /\ args.region \in {"plano", "paraboloide", "cilindro"}
     /\ Devolvio("superficie"))
    => LET ultima == ret.pasos[Len(ret.pasos)]
       IN  /\ DOMAIN ret = {"superficie", "linea", "pasos", "info"}
           /\ ret.superficie = IntegralesStokes.superficie
           /\ ret.linea = ret.superficie
           /\ ultima.k = "integral_superficie" /\ ultima.e = ret.superficie
           /\ \A j \in 1..Len(ret.pasos) :
                ret.pasos[j].k \notin {"integral_linea", "verificacion", "verificado",
                                        "no_coinciden"}

\* The rotation field through the paraboloid of radius 1 returned 2*pi in
\* both slots
C14_Testigo ==
    /\ fn = "stokes"
    /\ args.region = "paraboloide"
    /\ args.campo = <<TxtMenosY, TxtX, Txt0>>
    /\ Get(args.parametros, "R", Txt1) = Txt1
    /\ Devolvio("superficie")
    /\ ret.superficie = Angle(4)
    /\ ret.linea = Angle(4)

\* The parsed bounds of a variable of the call
Cota(var) == Analizar(Lookup(args.limites, var))

\* The product of upper minus lower bound over the variables vs
RECURSIVE VolumenCaja(_)
VolumenCaja(vs) ==
    IF vs = << >> THEN PInt(1)
    ELSE PMul(PSub(Cota(Head(vs))[2].p, Cota(Head(vs))[1].p), VolumenCaja(Tail(vs)))

\* The call integrates 1 over the box 0..2 x 0..1 x 0..3 in the order z, y, x
CajaDeSeis ==
    /\ args.variables = <<"z", "y", "x">>
    /\ args.limites = Limites("x", <<Txt0, TxtNum(2)>>, "y", <<Txt0, Txt1>>,
                              "z", <<Txt0, TxtNum(3)>>)

\* C15: in rectangular coordinates with the constant integrand 1 and
\* constant numeric bounds, resolver_integral_triple applies no Jacobian and
\* returns exactly the box volume, the product of upper minus lower bound
\* over the three variables, for every order of the three variables; for
\* x in [0,2], y in [0,1], z in [0,3] in order z, y, x the result is 6 and
\* the numeric value is 6.
C15_VolumenDeLaCaja ==
    (/\ fn = "triple"
     /\ EsRectangular(args.sistema)
     /\ args.integrando = Txt1
     /\ Len(args.variables) = 3
     /\ Devolvio("resultado")
     /\ \A v \in {"x", "y", "z"} : \A i \in 1..2 : IsConstant(Cota(v)[i].p))
    => LET ultima == ret.pasos[Len(ret.pasos)]
       IN  /\ ~TieneLinea(ret.pasos, "multiplicando_jacobiano")
           /\ ~TieneLinea(ret.pasos, "nota_jacobiano")
           /\ \A j \in 1..Len(ret.pasos) :
                (ret.pasos[j].k = "integral" /\ ret.pasos[j].i = 1)
                => ret.pasos[j].e = PInt(1)
           /\ ret.resultado = VolumenCaja(<<"x", "y", "z">>)
           /\ ultima.k = "numerico" /\ ultima.e = ret.resultado
           /\ CajaDeSeis => ret.resultado = PInt(6)

\* The box 0..2 x 0..1 x 0..3 integrated in the order z, y, x returned 6
C15_Testigo ==
    /\ fn = "triple"
    /\ args.sistema = "rectangular"
    /\ args.integrando = Txt1
    /\ CajaDeSeis
    /\ Devolvio("resultado")
    /\ ret.resultado = PInt(6)
    /\ ret.pasos[Len(ret.pasos)] = Linea("numerico", 0, "", PInt(6))

\* The two lines the numeric evaluation can append
EsNumerica(l) == l.k \in {"numerico", "no_numerico"}

\* C16: after the last integration step resolver_integral_triple attempts a
\* numeric evaluation of the final result; when free symbols remain the
\* call does not fail, the trace ends with the note that the numeric value
\* could not be computed and the record still returns the symbolic result;
\* when the evaluation is possible the trace ends with the numeric value.
\* Exactly one of the two lines is appended.
C16_EvaluacionNumerica ==
    (/\ fn = "triple"
     /\ pc = "fin"
     /\ TieneLinea(pasos, "final"))
    => /\ exc = ""
       /\ DOMAIN ret = {"resultado", "pasos"}
       /\ ret.pasos = pasos
       /\ ret.resultado = loc.expr
       /\ Len(SelectSeq(pasos, EsNumerica)) = 1
       /\ pasos[Len(pasos) - 1] = Linea("final", 0, "", ret.resultado)
       /\ pasos[Len(pasos)] =
             IF FreeSymbols(ret.resultado) = {}
             THEN Linea("numerico", 0, "", ret.resultado)
             ELSE L0("no_numerico")

\* A call whose upper bound of z is the symbol a returned a result that
\* holds a, and its trace ends with the note
C16_Testigo ==
    /\ fn = "triple"
    /\ Devolvio("resultado")
    /\ "a" \in FreeSymbols(ret.resultado)
    /\ ret.pasos[Len(ret.pasos)] = L0("no_numerico")

\* The fixed catalogue of shape tags of the engine that was called
Catalogo ==
    CASE fn \in {"green", "abrir_green"} -> RegionesGreen
      [] fn \in {"divergencia", "abrir_divergencia"} -> RegionesDivergencia
      [] fn = "stokes" -> SuperficiesStokes
      [] OTHER -> {}

\* C17: aplicar_green, aplicar_divergencia and aplicar_stokes, called with
\* parsable field components and a shape tag outside their fixed catalogue,
\* return a record whose only content is an 'error' message, with no values
\* and no trace, and never raise, whatever shape parameters are supplied,
\* including none.
C17_FormaDesconocida ==
    (/\ fn \in {"green", "divergencia", "stokes"}
     /\ pc = "fin"
     /\ args.region \notin Catalogo
     /\ \A i \in 1..Len(args.campo) : Sympify(args.campo[i]).ok)
    => /\ exc = ""
       /\ DOMAIN ret = {"error"}
       /\ pasos = << >>

\* aplicar_green was called for a hexagono without parameters and returned
\* the error record
C17_Testigo ==
    /\ fn = "green"
    /\ pc = "fin"
    /\ args.region = "hexagono"
    /\ args.sin_parametros
    /\ Sympify(args.campo[1]).ok /\ Sympify(args.campo[2]).ok
    /\ exc = ""
    /\ ret = [error |-> "Region no soportada para el Teorema de Green."]

\* The value slots of a success record of the engine that was called
Ranuras ==
    CASE fn = "triple" -> {"resultado"}
      [] fn \in {"green", "abrir_green"} -> {"doble", "linea", "info"}
      [] fn \in {"divergencia", "abrir_divergencia"} -> {"divergencia", "volumen", "info"}
      [] fn = "stokes" -> {"superficie", "linea", "info"}
      [] OTHER -> {}

\* C18: every record returned by an engine entry point is of exactly one of
\* two shapes: an error record that holds an error description and neither
\* values nor a step trace, or a success record that holds its value slots
\* together with a non-empty step trace and no error description; no
\* returned record mixes the two.
C18_DosFormas ==
    (pc = "fin" /\ exc = "")
    => \/ DOMAIN ret = {"error"}
       \/ /\ DOMAIN ret = Ranuras \cup {"pasos"}
          /\ ret.pasos # << >>

\* A Green call between curves whose lower curve does not parse returned
\* the error alone, although its trace had been started
C18_Testigo ==
    /\ fn = "green"
    /\ pc = "fin"
    /\ args.region = "entre_curvas"
    /\ Sympify(args.campo[1]).ok /\ Sympify(args.campo[2]).ok
    /\ exc = ""
    /\ ret = [error |-> "Error analizando las curvas"]

\* The trace a is the beginning of the trace b
EsPrefijo(a, b) == Len(a) <= Len(b) /\ SubSeq(b, 1, Len(a)) = a

\* The kinds of line of the Jacobian decision and of an integration step
LineasDeJacobiano == {"nota_jacobiano", "integrando_final", "multiplicando_jacobiano"}
LineasDePaso == {"paso", "integral", "parcial"}

\* The lines of the trace ps are in the order of the computation
EnOrden(ps) ==
    /\ \A j \in 1..Len(ps), m \in 1..Len(ps) :
          /\ (ps[j].k \in LineasDeJacobiano /\ ps[m].k \in LineasDePaso) => j < m
          /\ (ps[j].k \in LineasDePaso /\ ps[m].k \in LineasDePaso /\ ps[j].i < ps[m].i)
             => j < m
          /\ (ps[j].k \in LineasDePaso /\ ps[m].k = "final") => j < m
          /\ (ps[j].k = "final" /\ ps[m].k \in {"numerico", "no_numerico"}) => j < m
    /\ \A j \in 1..Len(ps) :
          /\ ps[j].k = "paso"
             => /\ j + 2 <= Len(ps)
                /\ ps[j + 1].k = "integral" /\ ps[j + 1].i = ps[j].i
                /\ ps[j + 2].k = "parcial" /\ ps[j + 2].i = ps[j].i
          /\ ps[j].k = "final"
             => j > 1 /\ ps[j - 1].k = "parcial" /\ ps[j - 1].e = ps[j].e
          /\ ps[j].k \in {"numerico", "no_numerico"}
             => j = Len(ps) /\ j > 1 /\ ps[j - 1].k = "final"

\* C19: the step trace of resolver_integral_triple is only ever appended to
\* during the call and its lines mirror the computation order: the Jacobian
\* line (note or multiplication), when present, precedes every integration
\* step; the lines of step k precede those of step k+1; the final-result
\* line follows the last partial result; the numeric-evaluation line (value
\* or skip note) is the last line.
C19_TrazaEnOrden ==
    [][fn' = "triple"
       => /\ EnOrden(pasos')
          /\ fn = "triple" => EsPrefijo(pasos, pasos')]_vars

\* A spherical call multiplied by the Jacobian, integrated three variables
\* and ended with the numeric value
C19_Testigo ==
    /\ fn = "triple"
    /\ Devolvio("resultado")
    /\ TieneLinea(pasos, "multiplicando_jacobiano")
    /\ Len(SelectSeq(pasos, EsParcial)) = 3
    /\ pasos[Len(pasos)].k = "numerico"
    /\ pasos[Len(pasos) - 1].k = "final"

C21_TrianguloSinX ==
    (/\ fn \in {"green", "abrir_green"}
     /\ args.region = "triangulo"
     /\ Devolvio("doble"))
    => LET PQ == Analizar(args.campo)
           rot == PSub(PDiff(PQ[2].p, "x"), PDiff(PQ[1].p, "y"))
           mitad == PDivNum(PMul(Parametro("base", TxtNum(2)),
                                 Parametro("altura", TxtNum(3))), PInt(2))
       IN  /\ "x" \notin FreeSymbols(ret.doble)
           /\ IsConstant(rot) => ret.doble = PMul(rot, mitad)


\* A boundary piece: the point (x, y) in cos(t), sin(t) on an arc and in t
\* on a segment, and the limits the parameter t runs between
Arco(cx, cy, R, lo, hi) ==
    [arco |-> TRUE, x |-> EnArcoX(cx, R), y |-> EnArcoY(cy, R), lo |-> lo, hi |-> hi]
Segmento(xs, ys, lo, hi) ==
    [arco |-> FALSE, x |-> xs, y |-> ys, lo |-> lo, hi |-> hi]

\* The curve y = f(x) run through with x = t
SobreGrafica(f, lo, hi) == Segmento(Sim("t"), Sust(f, "x", Sim("t")), lo, hi)

\* The pieces a branch of aplicar_green integrates over, in the order of
\* the code (lines 514-531, 556-568, 630-642, 675-697, 755-797, 828-844)
TramosFrontera(region, v, d) ==
    CASE region = "rectangulo" ->
            LET x1 == Mas(v["x0"], v["a"])
                y1 == Mas(v["y0"], v["b"])
            IN  <<Segmento(Sim("t"), v["y0"], v["x0"], x1),
                  Segmento(x1, Sim("t"), v["y0"], y1),
                  Segmento(Sim("t"), y1, x1, v["x0"]),
                  Segmento(v["x0"], Sim("t"), y1, v["y0"])>>
      [] region = "triangulo" ->
            <<Segmento(Sim("t"), v["y0"], v["x0"], Mas(v["x0"], v["base"])),
              Segmento(Mas(v["x0"], Por(v["base"], Menos(Num(1), Sim("t")))),
                       Mas(v["y0"], Por(v["altura"], Sim("t"))), Num(0), Num(1)),
              Segmento(v["x0"], Sim("t"), Mas(v["y0"], v["altura"]), v["y0"])>>
      [] region = "entre_curvas" ->
            <<SobreGrafica(v["f1"], v["x_min"], v["x_max"]),
              Segmento(v["x_max"], Sim("t"),
                       Sust(v["f1"], "x", v["x_max"]), Sust(v["f2"], "x", v["x_max"])),
              SobreGrafica(v["f2"], v["x_max"], v["x_min"]),
              Segmento(v["x_min"], Sim("t"),
                       Sust(v["f2"], "x", v["x_min"]), Sust(v["f1"], "x", v["x_min"]))>>
      [] region = "corona" ->
            <<Arco(v["centro_x"], v["centro_y"], v["R_ext"], Ang(0), Ang(4)),
              Arco(v["centro_x"], v["centro_y"], v["R_int"], Ang(4), Ang(0))>>
      [] region = "semicirculo" ->
            LET superior == Get(d, "tipo", "superior") = "superior"
                izquierda == Menos(v["centro_x"], v["R"])
                derecha == Mas(v["centro_x"], v["R"])
            IN  <<Arco(v["centro_x"], v["centro_y"], v["R"],
                       IF superior THEN Ang(0) ELSE Ang(2),
                       IF superior THEN Ang(2) ELSE Ang(4)),
                  Segmento(Sim("t"), v["centro_y"],
                           IF superior THEN derecha ELSE izquierda,
                           IF superior THEN izquierda ELSE derecha)>>
      [] region = "sector_polar" ->
            LET q1 == Quarter(v["theta_min"].p)
                q2 == Quarter(v["theta_max"].p)
            IN  <<Arco(Num(0), Num(0), v["R"], v["theta_min"], v["theta_max"]),
                  Segmento(Por(Sim("t"), Num(CosQ(q1))), Por(Sim("t"), Num(SinQ(q1))),
                           v["R"], Num(0)),
                  Segmento(Por(Sim("t"), Num(CosQ(q2))), Por(Sim("t"), Num(SinQ(q2))),
                           Num(0), v["R"])>>

\* The point of a piece at the value u of its parameter
PuntoEn(tr, u) ==
    IF tr.arco
    THEN LET q == Quarter(Evaluar(u))
         IN  <<Evaluar(Sust(Sust(tr.x, "cos", Num(CosQ(q))), "sin", Num(SinQ(q)))),
               Evaluar(Sust(Sust(tr.y, "cos", Num(CosQ(q))), "sin", Num(SinQ(q))))>>
    ELSE <<Evaluar(Sust(tr.x, "t", u)), Evaluar(Sust(tr.y, "t", u))>>
Inicio(tr) == PuntoEn(tr, tr.lo)
Fin(tr) == PuntoEn(tr, tr.hi)

\* Each piece starts where the one before it ends, the first where the
\* last ends; and the same for some order of the pieces
Encadenados(ts) ==
    \A i \in 1..Len(ts) : Fin(ts[i]) = Inicio(ts[(i % Len(ts)) + 1])
CicloCerrado(ts) ==
    \E f \in Permutations(1..Len(ts)) : Encadenados([i \in 1..Len(ts) |-> ts[f[i]]])

\* An arc run through with growing angle
AntiHorario(tr) == tr.arco /\ Quarter(Evaluar(tr.lo)) < Quarter(Evaluar(tr.hi))
Horario(tr) == tr.arco /\ Quarter(Evaluar(tr.lo)) > Quarter(Evaluar(tr.hi))

\* The pieces of the call in progress
TramosDeLaLlamada ==
    TramosFrontera(args.region,
                   [k \in ClavesNumericas(args.region) \cup ClavesCurvas(args.region) |->
                       Val(Parametro(k, DefectoGreen(args.region, k)))],
                   args.parametros)

\* The value returned as the boundary integral is the sum of the integrals
\* of P dx + Q dy over the pieces
IntegralSobre(P, Q, tr) ==
    IF tr.arco THEN LineaArco(Val(P), Val(Q), tr.x, tr.y, tr.lo, tr.hi)
    ELSE LineaSegmento(Val(P), Val(Q), tr.x, tr.y, tr.lo, tr.hi)
TramosIntegrados ==
    (/\ fn \in {"green", "abrir_green"}
     /\ args.region \in RegionesGreen \ {"disco", "elipse", "poligono"}
     /\ Devolvio("linea"))
    => LET PQ == Analizar(args.campo)
       IN  ret.linea = PSumSeq([i \in 1..Len(TramosDeLaLlamada) |->
                                   Evaluar(IntegralSobre(PQ[1].p, PQ[2].p,
                                                         TramosDeLaLlamada[i]))])

\* C22: for the Green shapes semicirculo (superior and inferior),
\* sector_polar and corona the boundary pieces that are integrated form
\* closed cycles run the positive way: each piece starts where another
\* ends, the arc of a semicirculo or sector is run counter-clockwise, and
\* for corona the outer circle is run counter-clockwise and the inner one
\* clockwise.
C22_CiclosCerrados ==
    (/\ fn \in {"green", "abrir_green"}
     /\ args.region \in {"semicirculo", "sector_polar", "corona"}
     /\ Devolvio("doble"))
    => IF args.region = "corona"
       THEN /\ \A i \in 1..2 : CicloCerrado(<<TramosDeLaLlamada[i]>>)
            /\ AntiHorario(TramosDeLaLlamada[1])
            /\ Horario(TramosDeLaLlamada[2])
       ELSE /\ CicloCerrado(TramosDeLaLlamada)
            /\ AntiHorario(TramosDeLaLlamada[1])

\* The same for corona alone
C22_CoronaCerrada ==
    (/\ fn \in {"green", "abrir_green"}
     /\ args.region = "corona"
     /\ Devolvio("doble"))
    => /\ \A i \in 1..2 : CicloCerrado(<<TramosDeLaLlamada[i]>>)
       /\ AntiHorario(TramosDeLaLlamada[1])
       /\ Horario(TramosDeLaLlamada[2])

\* A number above zero, and one not below zero
Positivo(p) == p # PZero /\ IsConstant(p) /\ NumCoef(p).n > 0
NoNegativo(p) == p = PZero \/ Positivo(p)

\* The integral of x dy over the pieces: the area they enclose when they
\* form a cycle run counter-clockwise
AreaEncerrada(ts) ==
    PSumSeq([i \in 1..Len(ts) |-> Evaluar(IntegralSobre(PZero, PVar("x"), ts[i]))])

\* How far the lower limit of a piece lies above its upper limit
Bajada(tr) == PSub(Evaluar(tr.lo), Evaluar(tr.hi))

\* The parameters of entre_curvas describe a region: x_min lies left of
\* x_max, and the curve f1 lies below f2 at both ends and not on it at both
CurvasOrdenadas ==
    LET hueco(k) == PSub(PSubs(Parametro("f2", TxtNum(4)), "x", Parametro(k, Txt0)),
                         PSubs(Parametro("f1", TxtX2), "x", Parametro(k, Txt0)))
    IN  /\ Positivo(PSub(Parametro("x_max", TxtNum(2)), Parametro("x_min", Txt0)))
        /\ NoNegativo(hueco("x_min"))
        /\ NoNegativo(hueco("x_max"))
        /\ Positivo(hueco("x_min")) \/ Positivo(hueco("x_max"))

\* C23: for the Green shapes rectangulo, triangulo and entre_curvas (with
\* the lower curve f1 below the upper curve f2 and x_min left of x_max) the
\* 3 or 4 pieces integrated form one closed cycle run counter-clockwise:
\* each piece starts where the one before it ends, the last ends where the
\* first starts, the cycle encloses a positive area, the top and far-side
\* pieces are integrated from their larger limit down to the smaller one,
\* and the boundary value returned is the sum over these pieces.
C23_CicloPoligonal ==
    (/\ fn \in {"green", "abrir_green"}
     /\ args.region \in {"rectangulo", "triangulo", "entre_curvas"}
     /\ Devolvio("doble")
     /\ args.region = "entre_curvas" => CurvasOrdenadas)
    => /\ Len(TramosDeLaLlamada) = (IF args.region = "triangulo" THEN 3 ELSE 4)
       /\ Encadenados(TramosDeLaLlamada)
       /\ Positivo(AreaEncerrada(TramosDeLaLlamada))
       /\ \A i \in 3..Len(TramosDeLaLlamada) : NoNegativo(Bajada(TramosDeLaLlamada[i]))
       /\ Positivo(Bajada(TramosDeLaLlamada[3]))
       /\ ret.linea = PSumSeq([i \in 1..Len(TramosDeLaLlamada) |->
                                  Evaluar(IntegralSobre(Analizar(args.campo)[1].p,
                                                        Analizar(args.campo)[2].p,
                                                        TramosDeLaLlamada[i]))])

\* The region between y = x**2 and y = 4 over [0, 2] was computed, and so
\* were a triangle and a rectangle
C23_Testigo ==
    /\ fn = "green"
    /\ args.region = "entre_curvas"
    /\ args.campo = <<TxtMenosY, TxtX>>
    /\ args.parametros = {<<"f1", TxtX2>>, <<"f2", TxtNum(4)>>,
                          <<"x_min", Txt0>>, <<"x_max", TxtNum(2)>>}
    /\ Devolvio("doble")
    /\ Encadenados(TramosDeLaLlamada)
    /\ Inicio(TramosDeLaLlamada[3]) = <<PInt(2), PInt(4)>>
    /\ Fin(TramosDeLaLlamada[3]) = <<PZero, PInt(4)>>
    /\ ret.linea = ret.doble

\* The rule for a Jacobian already written in the integrand: cylindrical
ReglaCilindricas(texto) ==
    LET t == Limpio(texto) IN
    \/ t = <<"r">>
    \/ /\ Len(t) >= 2
       /\ t[1] = "r"
       /\ t[2] \in {"+", "-", "*", "/"}
    \/ Contains(t, <<"r", "*", "z">>)
    \/ Contains(t, <<"r", "*", "t", "h", "e", "t", "a">>)
    \/ t \in {<<"r", "+", "z">>, <<"r", "-", "z">>,
              <<"r", "+", "t", "h", "e", "t", "a">>,
              <<"r", "-", "t", "h", "e", "t", "a">>}

\* The rule for a Jacobian already written in the integrand: spherical
ReglaEsfericas(texto) ==
    LET t == Limpio(texto)
        rho2 == <<"r", "h", "o", "*", "*", "2">>
        r2 == <<"r", "*", "*", "2">>
        seno == <<"s", "i", "n", "(", "p", "h", "i", ")">>
    IN  \/ Contains(t, rho2 \o <<"*">> \o seno)
        \/ Contains(t, r2 \o <<"*">> \o seno)
        \/ t \in {rho2, r2}
        \/ /\ Contains(t, rho2 \o <<"*">>) \/ Contains(t, r2 \o <<"*">>)
           /\ Contains(t, seno)

ReglaJacobiano(sistema, texto) ==
    \/ EsCilindrica(sistema) /\ ReglaCilindricas(texto)
    \/ EsEsferica(sistema) /\ ReglaEsfericas(texto)

\* C24: whenever resolver_integral_triple has taken its decision on the
\* Jacobian, the Jacobian counts as already applied, and the note of it is
\* in the trace, exactly when the rule holds of the integrand text: the
\* cylindrical rule in cylindrical coordinates, the spherical rule in
\* spherical coordinates, never in rectangular coordinates.
C24_DecisionJacobiano ==
    (/\ fn = "triple"
     /\ pc = "rit_bucle"
     /\ loc.i = 1)
    => /\ loc.aplicar_jacobiano = ~ReglaJacobiano(args.sistema, args.integrando)
       /\ TieneLinea(pasos, "nota_jacobiano")
            <=> ReglaJacobiano(args.sistema, args.integrando)

\* The same with the Greek spelling of the spherical Jacobian added to the
\* spherical rule
C24_ConLetrasGriegas ==
    (/\ fn = "triple"
     /\ pc = "rit_bucle"
     /\ loc.i = 1)
    => LET regla == \/ ReglaJacobiano(args.sistema, args.integrando)
                    \/ /\ EsEsferica(args.sistema)
                       /\ Contains(Limpio(args.integrando), TxtJacobianoGriego)
       IN  /\ loc.aplicar_jacobiano = ~regla
           /\ TieneLinea(pasos, "nota_jacobiano") <=> regla

\* The call is one of entre_curvas whose field, bounds and curves were
\* read without error
CurvasLeidas ==
    /\ fn \in {"green", "abrir_green"}
    /\ args.region = "entre_curvas"
    /\ ~args.sin_parametros
    /\ pc = "fin"
    /\ \A i \in 1..2 : Sympify(args.campo[i]).ok
    /\ \A k \in {"x_min", "x_max"} :
          Sympify(Get(args.parametros, k, DefectoGreen("entre_curvas", k))).ok
    /\ CurvasFallidas("entre_curvas", AnalizarGreen("entre_curvas", args.parametros),
                      args.parametros) = {}

\* The curve texts of the call that are read as a thing of the class
CurvasDeClase(clase) ==
    {k \in {"f1", "f2"} :
        ClaseDeCurva(Get(args.parametros, k, DefectoGreen("entre_curvas", k))) = clase}

C25_TestigoAmbas ==
    /\ CurvasLeidas
    /\ CurvasDeClase("none") = {"f2"}
    /\ CurvasDeClase("tupla") = {"f1"}
    /\ ret = [error |-> "Error en integral doble"]

\* C26: the history list only grows, and only by guardar_historial_actual
\* with a current exercise: a step that changes self.historial is taken with
\* no handler running and an exercise present, it appends exactly that
\* exercise at the end, changes nothing else of the window and leaves the
\* whole new list in the store; every other step (guardar without an
\* exercise, clearing, opening, accepting, cancelling or closing a dialog,
\* a computation, a load from the history) leaves the list and the store as
\* they were.
C26_HistorialSoloCrece ==
    [][IF app'.historial # app.historial
       THEN /\ EnReposo
            /\ app.registro_actual # SinRegistro
            /\ app' = [app EXCEPT !.historial = Append(app.historial, app.registro_actual),
                                  !.archivo = Append(app.historial, app.registro_actual)]
       ELSE app'.archivo = app.archivo]_vars

\* Two exercises of different kinds were saved, one after the other
C26_Testigo ==
    /\ Len(app.historial) = 2
    /\ app.historial[1].titulo # app.historial[2].titulo
    /\ app.archivo = app.historial

\* C27: a click on Aceptar that is rejected (an empty field, a parameter
\* that is no number, a polygon of fewer than three sides) leaves the dialog
\* open with its resultados as they were before the click, so that a dialog
\* that was closed otherwise than by a successful Aceptar hands no values to
\* the handler that waits for it: its resultados are None or empty.
C27_RechazoSinHuella ==
    [][/\ app.dialogo.abierto /\ app'.dialogo.abierto
          => app'.dialogo.resultados = app.dialogo.resultados
       /\ app'.dialogo.de # "" /\ ~app'.dialogo.abierto /\ ~app'.dialogo.aceptado
          => app'.dialogo.nulo \/ app'.dialogo.resultados = {}]_vars

\* A rejected click leaves the dialog open, and every field that was read
\* before the rejection is in resultados
C27_RechazoEscribe ==
    [][app.dialogo.abierto /\ app'.dialogo.abierto
       => \E valores \in Tecleados(app.dialogo) :
             /\ PrimerVacio(valores) <= Len(valores) \/ ~Validos(app'.dialogo.resultados)
             /\ Escritos(CamposDe(app.dialogo), valores) \subseteq app'.dialogo.resultados]_vars

\* The engine was called for a polygon of two sides, which Aceptar had
\* rejected: the dialog was closed with the button of its window
C27_PoligonoRechazado ==
    /\ fn = "abrir_green"
    /\ pc = "fin"
    /\ args.region = "poligono"
    /\ IntPy(Lookup(args.parametros, "lados")).n < 3
    /\ ~app.dialogo.aceptado

\* The order handed to the engine names each variable of the system once
OrdenEsPermutacion ==
    /\ Len(args.variables) = 3
    /\ {args.variables[i] : i \in 1..3} = {VariablesDe(args.sistema)[i] : i \in 1..3}
LimitesCompletos ==
    \A i \in 1..3 : HasKey(args.limites, VariablesDe(args.sistema)[i])

\* C28: whenever abrir_dialogo_integral_triple calls
\* resolver_integral_triple, the order it passes is a permutation of the
\* three variables of the chosen system and the limits map holds a (lower,
\* upper) pair for each of them, so that the lookup of the limits cannot
\* fail and each variable is integrated exactly once.
C28_OrdenCompleto ==
    fn = "abrir_triple" /\ pc = "rit_sistema"
    => OrdenEsPermutacion /\ LimitesCompletos

\* When the order typed is a permutation and all limits were read, the
\* engine finds every pair and integrates three times
C28_ConOrdenValido ==
    fn = "abrir_triple" /\ pc = "fin" /\ OrdenEsPermutacion /\ LimitesCompletos
    => /\ exc # "KeyError"
       /\ exc = "" => loc.i = 4

\* The order named a variable without limits and the lookup failed
C28_ClaveAusente ==
    /\ fn = "abrir_triple"
    /\ pc = "fin"
    /\ app.dialogo.aceptado
    /\ exc = "KeyError"

\* The order named two variables and the engine returned after two
\* integrations
C28_OrdenCorto ==
    /\ fn = "abrir_triple"
    /\ pc = "fin"
    /\ app.dialogo.aceptado
    /\ Len(args.variables) = 2
    /\ "resultado" \in DOMAIN ret

C29_TestigoExcepcion ==
    /\ app.ultima = "excepcion"
    /\ app.registro_actual = SinRegistro
    /\ Len(app.historial) = 2
C29_TestigoCancelado ==
    /\ app.ultima = "cancelado"
    /\ app.registro_actual = SinRegistro
    /\ Len(app.historial) = 1

\* A semicircle was asked for through the Green dialog, the dialog closed
\* by Aceptar, and the engine has been called
SemicirculoPedido ==
    /\ fn = "abrir_green"
    /\ pc = "fin"
    /\ app.dialogo.aceptado
    /\ args.region = "semicirculo"

\* C30: for a semicirculo asked for through the Green dialog, the 'tipo'
\* parameter that abrir_green passes to the engine is the value the user
\* entered in parametro3, so that both the upper half (t in [0, pi]) and the
\* lower half (t in [pi, 2*pi]) can be reached from the dialog.
C30_TipoDelDialogo ==
    SemicirculoPedido
    => Lookup(args.parametros, "tipo") = Join(Lookup(app.dialogo.resultados, "parametro3"))

\* Whatever is entered in parametro3, the engine is given tipo = 'superior'
C30_SiempreSuperior ==
    SemicirculoPedido => Lookup(args.parametros, "tipo") = "superior"

\* The user entered inferior and the upper half was computed
C30_InferiorPedido ==
    /\ SemicirculoPedido
    /\ Lookup(app.dialogo.resultados, "parametro3") = TxtInferior
    /\ Lookup(args.parametros, "tipo") = "superior"
    /\ "doble" \in DOMAIN ret

====
